---- MODULE Spec2Model ----
(***************************************************************************)
(* A model of the crawl engine of marahuyo-ph/crawler:                     *)
(*   - IAsyncCrawler::start, the shared engine loop (src/src/traits.rs),   *)
(*   - the SqliteCrawler frontier store (src/src/crawlers/sqlite.rs),      *)
(*   - the StdOutCrawler in-memory queue (src/src/crawlers/stdout.rs),     *)
(*   - the robots.txt matcher (src/src/check_robots.rs).                   *)
(* Strings that the code inspects character by character (paths, rule      *)
(* patterns, user-agent tokens) are sequences of one-character strings.    *)
(***************************************************************************)
EXTENDS Integers, Sequences, FiniteSets, TLC

\* ------------------------------------------------------------------ bounds
\* I/O failures (database statement or network transport) injected per run.
MaxFaults == 1
\* The clock may be advanced by the environment up to this value.
MaxTime == 2
\* Calls made in one run of the store-interface specification.
MaxCalls == 4
\* The longest chain of redirects a server answers with.
MaxChain == 6
\* Transient failures (500, 503, no response) a server produces in one fetch.
MaxFlaky == 2
\* The rules of a group and the groups of a robots.txt.
MaxRules == 2
MaxGroups == 3
\* The characters of a rule pattern and of a path.
MaxPattern == 4
MaxPath == 3
\* The a[href] elements of a document.
MaxAnchors == 2

\* ------------------------------------------------------- program constants
\* traits.rs: `while batch_urls.len() < 5`
BatchLimit == 5
\* The session the crawler was constructed with, and another one in the
\* same database.
crawl_session_id == 1
OtherSession == crawl_session_id + 1

\* fetch.rs:28-31 and StdOutCrawler::new (stdout.rs:38-40)
InitialMaxRedirects == 5
max_retries == 3
FetchRetryDelay == 500
StdoutRetryDelay == 100

NoHost == "unknown"
\* Option::None of a URL; an Option<Robot> is the empty or the one-element
\* sequence.
None == "none"
NoRobot == << >>

\* A Url that is not set, and an ExtractLinks as ExtractLinks::new makes it.
NoUrl == [scheme |-> << >>, host |-> << >>, port |-> 0, path |-> << >>, fragment |-> << >>]
NoLinks ==
    [internal |-> << >>, external |-> << >>, mailto |-> << >>, phone |-> << >>,
     anchor |-> << >>, javascript |-> << >>]

\* ------------------------------------------------------------ string helpers
Max(a, b) == IF a >= b THEN a ELSE b

\* str::starts_with
StartsWith(s, p) ==
    /\ Len(p) <= Len(s)
    /\ SubSeq(s, 1, Len(p)) = p

\* str::ends_with
EndsWith(s, p) ==
    /\ Len(p) <= Len(s)
    /\ SubSeq(s, Len(s) - Len(p) + 1, Len(s)) = p

\* s[from..] as a 0-based byte offset `from`
Tail0(s, from) == SubSeq(s, from + 1, Len(s))

\* The 0-based offsets at which p occurs in s.
Occurrences(s, p) ==
    { k \in 0..(Len(s) - Len(p)) : SubSeq(s, k + 1, k + Len(p)) = p }

\* str::contains
Contains(s, p) == Occurrences(s, p) # {}

\* str::find: the first offset, or -1 for Option::None (and the mutant that
\* gives the last offset, as str::rfind)
FindLast(s, p) ==
    IF Occurrences(s, p) = {} THEN -1
    ELSE CHOOSE k \in Occurrences(s, p) : \A j \in Occurrences(s, p) : k >= j

Find(s, p) ==
    IF Occurrences(s, p) = {} THEN -1
    ELSE CHOOSE k \in Occurrences(s, p) : \A j \in Occurrences(s, p) : k <= j

\* str::split on one character: the pieces between the separators.
RECURSIVE SplitAcc(_, _, _, _)
SplitAcc(s, sep, cur, acc) ==
    IF s = << >> THEN Append(acc, cur)
    ELSE IF Head(s) = sep THEN SplitAcc(Tail(s), sep, << >>, Append(acc, cur))
    ELSE SplitAcc(Tail(s), sep, Append(cur, Head(s)), acc)

Split(s, sep) == SplitAcc(s, sep, << >>, << >>)

\* str::to_lowercase over the letters the model uses.
LowerChar(c) ==
    CASE c = "A" -> "a"
      [] c = "B" -> "b"
      [] c = "G" -> "g"
      [] OTHER -> c

ToLower(s) == [i \in 1..Len(s) |-> LowerChar(s[i])]

\* -------------------------------------------------------------------- Url
\* What the calls of the url crate made by the crawlers do (Url::parse,
\* Url::join, Url::domain, Url::port, Url::to_string), for URLs written as
\* sequences of characters without userinfo and query. A Url is a record:
\* host << >> is None, port 0 is None, fragment << >> is None.
Digits == {"0", "1", "2", "3", "4", "5", "6", "7", "8", "9"}

Letters ==
    {"a", "b", "c", "d", "e", "f", "g", "h", "i", "j", "k", "l", "m", "n", "o",
     "p", "q", "r", "s", "t", "u", "v", "w", "x", "y", "z"}

DigitVal(c) ==
    CASE c = "0" -> 0 [] c = "1" -> 1 [] c = "2" -> 2 [] c = "3" -> 3 [] c = "4" -> 4
      [] c = "5" -> 5 [] c = "6" -> 6 [] c = "7" -> 7 [] c = "8" -> 8 [] c = "9" -> 9

DigitChar(d) ==
    CASE d = 0 -> "0" [] d = 1 -> "1" [] d = 2 -> "2" [] d = 3 -> "3" [] d = 4 -> "4"
      [] d = 5 -> "5" [] d = 6 -> "6" [] d = 7 -> "7" [] d = 8 -> "8" [] d = 9 -> "9"

\* format!("{}", port)
RECURSIVE ToDigits(_)
ToDigits(n) ==
    IF n < 10 THEN <<DigitChar(n)>> ELSE Append(ToDigits(n \div 10), DigitChar(n % 10))

\* the port of an authority read back as a number
RECURSIVE FromDigits(_, _)
FromDigits(s, acc) ==
    IF s = << >> THEN acc ELSE FromDigits(Tail(s), acc * 10 + DigitVal(Head(s)))

Http == <<"h", "t", "t", "p">>
Https == <<"h", "t", "t", "p", "s">>
Ftp == <<"f", "t", "p">>
SpecialSchemes == {Http, Https, Ftp}

DefaultPort(scheme) ==
    CASE scheme = Http -> 80
      [] scheme = Https -> 443
      [] scheme = Ftp -> 21
      [] OTHER -> 0

\* The number of characters before the `:` that ends a scheme at the start
\* of s, 0 when s does not start with a scheme.
SchemeLen(s) ==
    LET k == Find(s, <<":">>)
    IN IF k <= 0 THEN 0
       ELSE IF s[1] \in Letters
               /\ \A i \in 1..k : s[i] \in Letters \cup Digits \cup {"+", "-", "."}
       THEN k ELSE 0

\* The number of characters of s before the first one of `stops`.
Until(s, stops) ==
    LET hits == { k \in 1..Len(s) : s[k] \in stops }
    IN IF hits = {} THEN Len(s) ELSE (CHOOSE k \in hits : \A j \in hits : k <= j) - 1

\* s without the `/` it starts with.
RECURSIVE SkipSlashes(_)
SkipSlashes(s) == IF s # << >> /\ Head(s) = "/" THEN SkipSlashes(Tail(s)) ELSE s

BadUrl == [ok |-> FALSE, url |-> NoUrl]

SplitFragment(s) ==
    LET k == Until(s, {"#"})
    IN [path |-> SubSeq(s, 1, k),
        fragment |-> IF k = Len(s) THEN << >> ELSE << SubSeq(s, k + 2, Len(s)) >>]

\* The segments of a path with `.` and `..` resolved.
RECURSIVE PathSegments(_, _, _)
PathSegments(pieces, i, acc) ==
    IF i > Len(pieces) THEN acc
    ELSE LET seg == pieces[i]
             last == i = Len(pieces)
             popped == IF acc = << >> THEN << >> ELSE SubSeq(acc, 1, Len(acc) - 1)
         IN IF seg = <<".", ".">>
            THEN PathSegments(pieces, i + 1, IF last THEN Append(popped, << >>) ELSE popped)
            ELSE IF seg = <<".">>
            THEN PathSegments(pieces, i + 1, IF last THEN Append(acc, << >>) ELSE acc)
            ELSE PathSegments(pieces, i + 1, Append(acc, seg))

RECURSIVE JoinSegments(_)
JoinSegments(segs) ==
    IF segs = << >> THEN << >> ELSE <<"/">> \o Head(segs) \o JoinSegments(Tail(segs))

\* The path of a URL with an authority, from the text that follows it.
NormalPath(p) ==
    IF p = << >> THEN <<"/">>
    ELSE LET segs == PathSegments(Split(p, "/"), 2, << >>)
         IN IF segs = << >> THEN <<"/">> ELSE JoinSegments(segs)

\* host[:port] and what follows, for a scheme with an authority.
ParseAuthority(scheme, s) ==
    LET n == Until(s, {"/", "#"})
        auth == SubSeq(s, 1, n)
        rest == SplitFragment(SubSeq(s, n + 1, Len(s)))
        c == Until(auth, {":"})
        host == SubSeq(auth, 1, c)
        digits == IF c = Len(auth) THEN << >> ELSE SubSeq(auth, c + 2, Len(auth))
        number == FromDigits(digits, 0)
    IN IF host = << >> \/ \E i \in DOMAIN digits : digits[i] \notin Digits THEN BadUrl
       ELSE [ok |-> TRUE,
             url |-> [scheme |-> scheme, host |-> host,
                      port |-> IF digits = << >> \/ number = DefaultPort(scheme)
                               THEN 0 ELSE number,
                      path |-> NormalPath(rest.path), fragment |-> rest.fragment]]

\* Url::parse: an absolute URL. After the scheme of http, https or ftp any
\* number of slashes leads to the authority; the other schemes of the model
\* (mailto, tel, javascript, data) are followed by an opaque path.
ParseUrl(s) ==
    LET k == SchemeLen(s)
        scheme == SubSeq(s, 1, k)
        rest == SubSeq(s, k + 2, Len(s))
        opaque == SplitFragment(rest)
    IN IF k = 0 THEN BadUrl
       ELSE IF scheme \in SpecialSchemes THEN ParseAuthority(scheme, SkipSlashes(rest))
       ELSE [ok |-> TRUE,
             url |-> [scheme |-> scheme, host |-> << >>, port |-> 0,
                      path |-> opaque.path, fragment |-> opaque.fragment]]

\* The path of the base up to its last `/`.
BaseDir(p) ==
    LET slashes == { k \in 1..Len(p) : p[k] = "/" }
    IN IF slashes = {} THEN << >>
       ELSE SubSeq(p, 1, CHOOSE k \in slashes : \A j \in slashes : j <= k)

\* A reference without a scheme resolved against the base.
JoinRelative(base, s) ==
    LET ref == SplitFragment(s)
    IN IF base.host = << >>
       THEN IF s # << >> /\ Head(s) = "#"
            THEN [ok |-> TRUE, url |-> [base EXCEPT !.fragment = <<Tail(s)>>]]
            ELSE BadUrl
       ELSE IF s = << >> THEN [ok |-> TRUE, url |-> [base EXCEPT !.fragment = << >>]]
       ELSE IF StartsWith(s, <<"/", "/">>) THEN ParseAuthority(base.scheme, SkipSlashes(s))
       ELSE IF Head(s) = "/"
       THEN [ok |-> TRUE,
             url |-> [base EXCEPT !.path = NormalPath(ref.path), !.fragment = ref.fragment]]
       ELSE IF Head(s) = "#"
       THEN [ok |-> TRUE, url |-> [base EXCEPT !.fragment = <<Tail(s)>>]]
       ELSE [ok |-> TRUE,
             url |-> [base EXCEPT !.path = NormalPath(BaseDir(base.path) \o ref.path),
                                  !.fragment = ref.fragment]]

\* Url::join: a reference with the scheme of the base, when that scheme is
\* http, https or ftp and is not followed by `//`, is resolved as a relative
\* one; a reference with any other scheme is an absolute URL.
JoinUrl(base, s) ==
    LET k == SchemeLen(s)
        scheme == SubSeq(s, 1, k)
        rest == SubSeq(s, k + 2, Len(s))
    IN IF k = 0 THEN JoinRelative(base, s)
       ELSE IF scheme \in SpecialSchemes /\ scheme = base.scheme
               /\ ~StartsWith(rest, <<"/", "/">>)
       THEN JoinRelative(base, rest)
       ELSE ParseUrl(s)

\* Url::to_string
UrlString(u) ==
    u.scheme \o <<":">>
    \o (IF u.host = << >> THEN << >>
        ELSE <<"/", "/">> \o u.host
             \o (IF u.port = 0 THEN << >> ELSE <<":">> \o ToDigits(u.port)))
    \o u.path
    \o (IF u.fragment = << >> THEN << >> ELSE <<"#">> \o u.fragment[1])

\* A host that ends in a number is an IPv4 address.
IsIpv4(host) ==
    LET labels == Split(host, ".")
        last == labels[Len(labels)]
    IN last # << >> /\ \A i \in DOMAIN last : last[i] \in Digits

\* url.domain().unwrap_or(""): the host when it is a domain name.
DomainOrEmpty(u) == IF u.host = << >> \/ IsIpv4(u.host) THEN << >> ELSE u.host

\* ------------------------------------------------------------ robots matcher
\* Robot::matches_pattern, the middle and last parts of a pattern with `*`.
RECURSIVE MatchParts(_, _, _, _, _)
MatchParts(parts, i, path, path_pos, exact_end) ==
    IF i > Len(parts) THEN TRUE
    ELSE IF i = Len(parts) THEN
        IF exact_end
        THEN EndsWith(path, parts[i]) /\ path_pos <= Len(path) - Len(parts[i])
        ELSE Contains(Tail0(path, path_pos), parts[i])
    ELSE
        LET pos == Find(Tail0(path, path_pos), parts[i])
        IN IF pos = -1 THEN FALSE
           ELSE MatchParts(parts, i + 1, path, path_pos + pos + Len(parts[i]), exact_end)

matches_pattern(pattern, path) ==
    LET exact_end == EndsWith(pattern, <<"$">>)
        pat == IF exact_end THEN SubSeq(pattern, 1, Len(pattern) - 1) ELSE pattern
        pattern_parts == Split(pat, "*")
    IN IF Len(pattern_parts) = 1
       THEN IF exact_end THEN path = pat ELSE StartsWith(path, pat)
       ELSE IF ~StartsWith(path, pattern_parts[1]) THEN FALSE
       ELSE MatchParts(pattern_parts, 2, path, Len(pattern_parts[1]), exact_end)

\* Robot::find_longest_matching_rule: the index of the rule kept by the scan,
\* 0 for Option::None. A rule replaces the current one only when strictly
\* longer, and the scan starts from length 0.
RECURSIVE LongestScan(_, _, _, _, _)
LongestScan(rules, path, i, best, best_len) ==
    IF i > Len(rules) THEN best
    ELSE IF matches_pattern(rules[i].pattern, path) /\ Len(rules[i].pattern) > best_len
         THEN LongestScan(rules, path, i + 1, i, Len(rules[i].pattern))
         ELSE LongestScan(rules, path, i + 1, best, best_len)

find_longest_matching_rule(rules, path) == LongestScan(rules, path, 1, 0, 0)

\* Robot::find_group: the index of the selected group, 0 for Option::None.
ExactGroups(robot, ua) ==
    { g \in DOMAIN robot.groups :
        \E a \in DOMAIN robot.groups[g].user_agents :
            ToLower(robot.groups[g].user_agents[a]) = ToLower(ua) }

\* check_robots.rs:220-221  the tokens compared in lower case (and the mutant
\* that compares them as written)
PrefixLenCaseSensitive(group, ua) ==
    LET lens == { Len(group.user_agents[a]) : a \in
                    { a \in DOMAIN group.user_agents :
                        /\ StartsWith(ua, group.user_agents[a])
                        /\ group.user_agents[a] # <<"*">> } }
    IN IF lens = {} THEN 0 ELSE CHOOSE l \in lens : \A m \in lens : m <= l

PrefixLen(group, ua) ==
    LET lens == { Len(group.user_agents[a]) : a \in
                    { a \in DOMAIN group.user_agents :
                        /\ StartsWith(ToLower(ua), ToLower(group.user_agents[a]))
                        /\ ToLower(group.user_agents[a]) # <<"*">> } }
    IN IF lens = {} THEN 0 ELSE CHOOSE l \in lens : \A m \in lens : m <= l

WildcardGroups(robot) ==
    { g \in DOMAIN robot.groups :
        \E a \in DOMAIN robot.groups[g].user_agents :
            robot.groups[g].user_agents[a] = <<"*">> }

MinOf(S) == CHOOSE x \in S : \A y \in S : x <= y

find_group(robot, ua) ==
    IF ExactGroups(robot, ua) # {} THEN MinOf(ExactGroups(robot, ua))
    ELSE
        LET G == DOMAIN robot.groups
            best == IF G = {} THEN 0
                    ELSE CHOOSE l \in { PrefixLen(robot.groups[g], ua) : g \in G } :
                           \A g \in G : PrefixLen(robot.groups[g], ua) <= l
        IN IF best > 0
           THEN MinOf({ g \in G : PrefixLen(robot.groups[g], ua) = best })
           ELSE IF WildcardGroups(robot) # {} THEN MinOf(WildcardGroups(robot))
           ELSE 0

\* Robot::allow on the path of the URL.
RobotAllow(robot, path, ua) ==
    LET g == find_group(robot, ua)
    IN IF g = 0 THEN TRUE
       ELSE LET r == find_longest_matching_rule(robot.groups[g].rules, path)
            IN IF r = 0 THEN TRUE ELSE robot.groups[g].rules[r].allow

\* Robot::crawl_delay: -1 for Option::None.
crawl_delay(robot, ua) ==
    LET g == find_group(robot, ua)
    IN IF g = 0 THEN -1 ELSE robot.groups[g].crawl_delay

\* ------------------------------------------------------------------ the site
\* The web the crawler runs against: six hosts, ten pages, and one URL
\* without a host (such as mailto:x or file:///x, which Url::parse accepts).
\* It is the input of the program; the engine only sees it through its
\* requests.
Hosts == {"h1", "h2", "h3", "h4", "h5", "h6"}
Urls == {"a0", "a1", "a2", "b0", "b1", "b2", "c0", "d0", "e0", "f0", "m0"}

\* Url::host_str
HostOf(u) ==
    CASE u \in {"a0", "a1", "a2"} -> "h1"
      [] u \in {"b0", "b1", "b2"} -> "h2"
      [] u = "c0" -> "h3"
      [] u = "d0" -> "h4"
      [] u = "e0" -> "h5"
      [] u = "f0" -> "h6"
      [] u = "m0" -> NoHost

\* Url::path
PathOf(u) ==
    CASE u \in {"a1", "b1"} -> <<"/", "a">>
      [] u = "a2" -> <<"/", "p">>
      [] u = "b2" -> <<"/", "b">>
      [] OTHER -> <<"/">>

\* The hrefs of the anchors of the page, in document order (all of them
\* absolute http URLs of the site).
Hrefs(u) ==
    CASE u = "a0" -> <<"a1", "a2", "b0">>
      [] u = "a1" -> <<"a0">>
      [] u = "b0" -> <<"b1", "b2", "b1">>
      [] u = "b1" -> <<"b0">>
      [] OTHER -> << >>

EmptyRobot == [groups |-> << >>]

\* User-agent: * / Disallow: /p / Crawl-delay: 2
RobotH1 ==
    [groups |-> << [user_agents |-> << <<"*">> >>,
                    rules |-> << [pattern |-> <<"/", "p">>, allow |-> FALSE] >>,
                    crawl_delay |-> 2] >>]

\* What the server of a host answers to GET /robots.txt: a transport error,
\* or a status with a body (given here as the Robot the body parses to; the
\* error pages of 403 and 404 carry no robots directive).
RobotsResponse(h) ==
    CASE h = "h1" -> [kind |-> "ok", status |-> 200, robot |-> RobotH1]
      [] h = "h2" -> [kind |-> "ok", status |-> 404, robot |-> EmptyRobot]
      [] h = "h3" -> [kind |-> "err", status |-> 0, robot |-> EmptyRobot]
      [] h = "h4" -> [kind |-> "ok", status |-> 403, robot |-> EmptyRobot]
      [] OTHER -> [kind |-> "ok", status |-> 200, robot |-> EmptyRobot]

\* The seed lists given on the command line.
SeedLists ==
    { <<"a0">>, <<"b0">>, <<"b0", "b0">>, <<"a2", "b2", "c0", "d0", "e0", "f0">>,
      <<"m0", "c0">>, <<"d0">> }

\* The user-agent the robots rules are evaluated for (stdout.rs:48), and the
\* one the crawl-delay is read for (traits.rs:80).
CrawlerAgent == <<"M">>
DelayAgent == <<"*">>

\* ------------------------------------------------- SqliteCrawler: url_queue
NewQueueItem(u) ==
    [session |-> crawl_session_id, url |-> u, priority |-> 0,
     retry_count |-> 0, status |-> "pending"]

\* add_to_queue, the `exists` query: count(url = u, crawl_session_id) > 0
QueueExists(q, u) ==
    \E i \in DOMAIN q : q[i].url = u /\ q[i].session = crawl_session_id

\* add_to_queue with an upsert in place of the `exists` test: an entry that
\* exists is set back to pending.
AddOneRequeue(q, u) ==
    IF QueueExists(q, u)
    THEN [i \in DOMAIN q |->
            IF q[i].url = u /\ q[i].session = crawl_session_id
            THEN [q[i] EXCEPT !.status = "pending"] ELSE q[i]]
    ELSE Append(q, NewQueueItem(u))

AddOne(q, u) == IF QueueExists(q, u) THEN q ELSE Append(q, NewQueueItem(u))

RECURSIVE AddAll(_, _)
AddAll(q, urls) ==
    IF urls = << >> THEN q ELSE AddAll(AddOne(q, Head(urls)), Tail(urls))

\* SqliteCrawler::add_to_queue. f = 0: every statement succeeds; f = k: a
\* statement (the count or the insert) fails while the k-th URL is handled,
\* and `?` returns the error with the earlier inserts kept.
sqlite_add_to_queue(q, urls, f) ==
    IF f = 0 THEN [q |-> AddAll(q, urls), ok |-> TRUE]
    ELSE [q |-> AddAll(q, SubSeq(urls, 1, f - 1)), ok |-> FALSE]

\* next_queue, the rows the query filters: this session, status pending
\* (and the mutant whose query forgets the status).
PendingRowsAnyStatus(q) ==
    { i \in DOMAIN q : q[i].session = crawl_session_id }

PendingRows(q) ==
    { i \in DOMAIN q : q[i].session = crawl_session_id /\ q[i].status = "pending" }

\* order_by_desc(priority).one(): a row of highest priority. Rows of equal
\* priority come in an order the query does not fix; `t` is the order the
\* database uses in this run (by ascending or by descending rowid).
NextItem(q, t) ==
    LET P == PendingRows(q)
        top == { i \in P : \A j \in P : q[j].priority <= q[i].priority }
    IN IF P = {} THEN 0
       ELSE IF t = "asc" THEN CHOOSE i \in top : \A j \in top : i <= j
       ELSE CHOOSE i \in top : \A j \in top : j <= i

\* SqliteCrawler::next_queue. f = 1: the select fails (`.ok().flatten()?`
\* gives None); f = 2: the update fails (`.ok()` gives None, the row is not
\* changed).
sqlite_next_queue(q, t, f) ==
    LET i == NextItem(q, t)
    IN IF f = 1 \/ i = 0 THEN [q |-> q, ret |-> None]
       ELSE IF f = 2 THEN [q |-> q, ret |-> None]
       ELSE [q |-> [q EXCEPT ![i].status = "processing"], ret |-> q[i].url]

\* mark_as_visited, the row `.one()` finds for (url, crawl_session_id).
QueueFind(q, u) ==
    LET R == { i \in DOMAIN q : q[i].url = u /\ q[i].session = crawl_session_id }
    IN IF R = {} THEN 0 ELSE MinOf(R)

\* SqliteCrawler::mark_as_visited. f = 1: the select fails; f = 2: the update
\* fails.
sqlite_mark_as_visited(q, u, f) ==
    LET i == QueueFind(q, u)
    IN IF f = 1 THEN [q |-> q, ok |-> FALSE]
       ELSE IF i = 0 THEN [q |-> q, ok |-> TRUE]
       ELSE IF f = 2 THEN [q |-> q, ok |-> FALSE]
       ELSE [q |-> [q EXCEPT ![i].status = "completed"], ok |-> TRUE]

\* ------------------------------------------------------ SqliteCrawler: pages
\* save, the `existing_page` query (and the mutant without the query, which
\* always inserts).
PageFindNothing(pg, u) == 0

PageFind(pg, u) ==
    LET R == { i \in DOMAIN pg : pg[i].url = u /\ pg[i].session = crawl_session_id }
    IN IF R = {} THEN 0 ELSE MinOf(R)

\* SqliteCrawler::has_seen. f = 1: the select fails and `.ok().flatten()`
\* turns the error into "not seen".
sqlite_has_seen(pg, u, f) == f # 1 /\ PageFind(pg, u) # 0

RECURSIVE LinkRows(_, _)
LinkRows(page_id, hrefs) ==
    IF hrefs = << >> THEN << >>
    ELSE <<[source_page_id |-> page_id, target_url |-> Head(hrefs)]>>
           \o LinkRows(page_id, Tail(hrefs))

\* SqliteCrawler::save. f = 1: the select of the existing page fails; f = 2:
\* the update or insert of the page row fails; f = 3: insert_many of the link
\* rows fails, after the page row was written (there is no transaction).
\* `version` counts the writes of the row (the content columns are rewritten).
sqlite_save(pg, ln, u, f) ==
    LET i == PageFind(pg, u)
        written == IF i # 0 THEN [pg EXCEPT ![i].version = @ + 1]
                   ELSE Append(pg, [session |-> crawl_session_id, url |-> u, version |-> 1])
        page_id == IF i # 0 THEN i ELSE Len(pg) + 1
    IN IF f \in {1, 2} THEN [pages |-> pg, links |-> ln, ok |-> FALSE]
       ELSE IF f = 3 THEN [pages |-> written, links |-> ln, ok |-> FALSE]
       ELSE [pages |-> written, links |-> ln \o LinkRows(page_id, Hrefs(u)), ok |-> TRUE]

\* ---------------------------------------------------- SqliteCrawler: domains
DomainFind(dm, h) ==
    LET R == { i \in DOMAIN dm : dm[i].domain = h }
    IN IF R = {} THEN 0 ELSE MinOf(R)

\* check_robot_policy with the match on the record left out: any URL with a
\* host is allowed, whatever its domain record says.
sqlite_check_robot_policy_any(dm, u, f) ==
    [domains |-> dm, allowed |-> HostOf(u) # NoHost]

\* SqliteCrawler::check_robot_policy followed by the caller's
\* `.unwrap_or(false)`. f = 1: the select fails; f = 2: the insert of the
\* default record fails.
sqlite_check_robot_policy(dm, u, f) ==
    LET i == DomainFind(dm, HostOf(u))
    IN IF HostOf(u) = NoHost \/ f = 1 THEN [domains |-> dm, allowed |-> FALSE]
       ELSE IF i # 0 THEN [domains |-> dm, allowed |-> dm[i].allow_crawl]
       ELSE IF f = 2 THEN [domains |-> dm, allowed |-> FALSE]
       ELSE [domains |-> Append(dm, [domain |-> HostOf(u), allow_crawl |-> TRUE,
                                     robots_txt |-> NoRobot]),
             allowed |-> TRUE]

\* SqliteCrawler::parse_links: the internal and external links of the page,
\* deduplicated by ExtractLinks::extract.
RECURSIVE Dedup(_, _)
Dedup(s, acc) ==
    IF s = << >> THEN acc
    ELSE IF \E i \in DOMAIN acc : acc[i] = Head(s) THEN Dedup(Tail(s), acc)
    ELSE Dedup(Tail(s), Append(acc, Head(s)))

parse_links(u) == Dedup(Hrefs(u), << >>)

\* ------------------------------------------------------------- StdOutCrawler
\* StdOutCrawler::add_to_queue: push_back every URL that is not in `visited`.
RECURSIVE stdout_add_to_queue(_, _, _)
stdout_add_to_queue(qu, vis, urls) ==
    IF urls = << >> THEN qu
    ELSE stdout_add_to_queue(
            IF Head(urls) \notin vis THEN Append(qu, Head(urls)) ELSE qu,
            vis, Tail(urls))

\* StdOutCrawler::next_queue: pop_front
stdout_next_queue(qu) ==
    IF qu = << >> THEN [queue |-> qu, ret |-> None]
    ELSE [queue |-> Tail(qu), ret |-> Head(qu)]

\* StdOutCrawler::has_seen
stdout_has_seen(vis, u) == u \in vis

\* StdOutCrawler::mark_as_visited
stdout_mark_as_visited(vis, u) == vis \cup {u}

\* StdOutCrawler::check_robot_policy: the one Robot the crawler holds is
\* asked about the URL, whatever host it was fetched from.
stdout_check_robot_policy(rb, u) ==
    rb = NoRobot \/ RobotAllow(rb[1], PathOf(u), CrawlerAgent)

\* StdOutCrawler::fetch_robot_txt: None when the request fails (f = 1) and
\* for 404, else the body parsed, under any other status.
stdout_fetch_robot_txt(u, f) ==
    LET resp == RobotsResponse(HostOf(u))
    IN IF f = 1 \/ resp.kind = "err" \/ resp.status = 404 THEN NoRobot
       ELSE <<resp.robot>>

\* StdOutCrawler has no get_robot_txt in stdout.rs: what start gets from it
\* is either None or the Robot the crawler holds.
stdout_get_robot_txt(rb) == {NoRobot, rb}

\* StdOutCrawler::parse_links: the internal links of the page.
stdout_parse_links(u) ==
    LET Internal(v) == HostOf(v) = HostOf(u)
    IN Dedup(SelectSeq(Hrefs(u), Internal), << >>)

\* ------------------------------------------------------ the fetch loop: data
\* An Option<HeaderValue> is the empty or the one-element sequence.
NoHeader == << >>
TextHtml == <<"t", "e", "x", "t", "/", "h", "t", "m", "l">>
HeaderHtml == << TextHtml \o <<";", "u", "8">> >>
HeaderJson == << <<"j", "s", "o", "n">> >>

\* The result of `client.get(current_url).send().await`: no response (a
\* transport error) or a response with its status and the two headers the
\* loop reads. `location` is the place in the chain the Location header
\* names, -1 when the header is missing.
NoResponse ==
    [kind |-> "none", status |-> 0, content_type |-> NoHeader, location |-> -1]

Reply(status, content_type, location) ==
    [kind |-> "resp", status |-> status, content_type |-> content_type,
     location |-> location]

TransportError ==
    [kind |-> "err", status |-> 0, content_type |-> NoHeader, location |-> -1]

\* The answers a server has for the last URL of a chain.
Finals ==
    {"html", "json", "bare", "404", "403", "502", "303", "500", "503", "down", "noloc"}

FinalResponse(fin) ==
    CASE fin = "html" -> Reply(200, HeaderHtml, -1)
      [] fin = "json" -> Reply(200, HeaderJson, -1)
      [] fin = "bare" -> Reply(200, NoHeader, -1)
      [] fin = "404" -> Reply(404, HeaderHtml, -1)
      [] fin = "403" -> Reply(403, HeaderHtml, -1)
      [] fin = "502" -> Reply(502, HeaderHtml, -1)
      [] fin = "303" -> Reply(303, NoHeader, 0)
      [] fin = "500" -> Reply(500, HeaderHtml, -1)
      [] fin = "503" -> Reply(503, HeaderHtml, -1)
      [] fin = "noloc" -> Reply(302, NoHeader, -1)
      [] fin = "down" -> TransportError

\* The server: URL u of the chain redirects to URL u + 1 (with 302 and 301
\* in turn) until the last one, which gives the final answer.
ServerResponse(u, ch, fin) ==
    IF u < ch THEN Reply(IF u % 2 = 0 THEN 302 ELSE 301, NoHeader, u + 1)
    ELSE FinalResponse(fin)

\* fetch.rs:62, 158  retry_delay = retry_delay * 2 (and the mutant that
\* keeps the delay)
NextRetryDelayConstant(d) == d

NextRetryDelay(d) == d * 2

\* fetch.rs:147  the statuses of the retry arm (and the mutant that retries
\* every 5xx)
IsServerErrorAny5xx(status) == status >= 500

IsServerError(status) == status \in {500, 503}

\* fetch.rs:119  StatusCode::MOVED_PERMANENTLY | StatusCode::FOUND
IsRedirect(status) == status \in {301, 302}

NoOutcome == [kind |-> "none", url |-> -1, final_url |-> -1]

\* Err(anyhow!(..)): the error is told by its message.
Failure(kind) == [kind |-> kind, url |-> -1, final_url |-> -1]

\* What the server answers to GET of a page of the site: e0 is gone, f0 is
\* out of service, the other pages are HTML documents.
PageResponse(u) ==
    CASE u = "e0" -> Reply(404, HeaderHtml, -1)
      [] u = "f0" -> Reply(503, HeaderHtml, -1)
      [] OTHER -> Reply(200, HeaderHtml, -1)

\* ---------------------------------------------------------------------- state
VARIABLES
    backend,              \* which crawler runs: "sqlite" or "stdout"
    tie,                  \* the database's order among rows of equal priority
    seeds,                \* the argument of start
    pc,                   \* the position of start in its loop
    url_queue,            \* table url_queue: the frontier entries
    pages,                \* table pages: the saved pages
    links,                \* table links: the out-links
    domains,              \* table domains: the domain records
    robots_cache,         \* SqliteCrawler.robots_cache
    domain_last_crawl,    \* start: domain_last_crawl (-1: no entry)
    domain_crawl_delays,  \* start: domain_crawl_delays (-1: no entry)
    now,                  \* the clock (seconds)
    next_url,             \* start: next_url
    batch_urls,           \* start: batch_urls
    seen_domains,         \* start: seen_domains
    inflight,             \* indexes of batch_urls whose fetch future is running
    results,              \* start: results of join_all
    idx,                  \* start: idx of the result being processed
    faults,               \* I/O failures injected so far
    queue,                \* StdOutCrawler.queue
    visited,              \* StdOutCrawler.visited
    stdout_robot,         \* StdOutCrawler.robot
    calls,                \* store-interface calls made so far
    lastCall,             \* the last store-interface call and what it saw
    handed,               \* history: the URLs next_queue returned, in order
    fetchLog,             \* history: the page fetches dispatched, in order
    save_ok,              \* history: URLs for which save returned Ok
    marked,               \* history: URLs for which mark_as_visited returned Ok
    resumed,              \* the process was killed and start was run again
    fetcher,              \* which fetch loop runs: "fetch" or "stdout"
    chain,                \* the server: redirects before the final answer
    final,                \* the server: the answer of the last URL of the chain
    fpc,                  \* the position of the fetch loop
    current_url,          \* fetch: current_url (its place in the chain)
    max_redirects,        \* fetch: max_redirects
    retry_count,          \* fetch: retry_count
    retry_delay,          \* fetch: retry_delay (ms)
    redirect_count,       \* fetch: redirect_count
    response,             \* fetch: the result of send()
    respLog,              \* history: the statuses received (0: no response)
    sleeps,               \* history: the sleeps of the fetch loop (ms)
    flaky,                \* transient failures the server has produced
    outcome,              \* what the fetch returned
    robots_requests,      \* history: GET robots.txt requests sent, per host
    lpc,                  \* the position of a library call: its input, its result
    pattern,              \* matches_pattern: pattern
    path,                 \* matches_pattern, Robot::allow: the path of the URL
    matches,              \* what matches_pattern returned
    robot,                \* Robot::allow: self
    user_agent,           \* Robot::allow: user_agent
    group,                \* what find_group returned (0: None)
    allowed,              \* what Robot::allow returned
    page_url,             \* fetch_robot_txt, ExtractLinks::extract: url
    robots_url,           \* the URL fetch_robot_txt requested
    anchors,              \* ExtractLinks::extract: the a[href] elements of document
    extracted             \* what ExtractLinks::extract returned

vars ==
    <<backend, tie, seeds, pc, url_queue, pages, links, domains, robots_cache,
      domain_last_crawl, domain_crawl_delays, now, next_url, batch_urls,
      seen_domains, inflight, results, idx, faults, queue, visited, stdout_robot, calls,
      lastCall, handed, fetchLog, save_ok, marked, resumed, fetcher, chain,
      final, fpc, current_url, max_redirects, retry_count, retry_delay,
      redirect_count, response, respLog, sleeps, flaky, outcome,
      robots_requests, lpc, pattern, path, matches, robot, user_agent, group,
      allowed, page_url, robots_url, anchors, extracted>>

storeVars == <<url_queue, pages, links, domains>>
hostMaps == <<robots_cache, domain_last_crawl, domain_crawl_delays>>
batchVars == <<batch_urls, seen_domains, inflight, results, idx>>
stdoutVars == <<queue, visited, stdout_robot>>
apiVars == <<calls, lastCall>>
histVars == <<handed, fetchLog, save_ok, marked>>
configVars == <<backend, tie, seeds>>
fetchVars ==
    <<fetcher, chain, final, fpc, current_url, max_redirects, retry_count,
      retry_delay, redirect_count, response, respLog, sleeps, flaky, outcome>>
libVars ==
    <<lpc, pattern, path, matches, robot, user_agent, group, allowed, page_url,
      robots_url, anchors, extracted>>

\* Rows left in the database by a crawl of another session.
ForeignQueueItem ==
    [session |-> OtherSession, url |-> "a0", priority |-> 0,
     retry_count |-> 0, status |-> "pending"]

ForeignPage == [session |-> OtherSession, url |-> "b0", version |-> 1]

NoCall ==
    [op |-> "none", urls |-> << >>, ret |-> None, before |-> << >>, beforeq |-> << >>,
     beforep |-> << >>]

\* No fetch loop runs.
FetchOff ==
    /\ fetcher = "fetch"
    /\ chain = 0
    /\ final = "html"
    /\ fpc = "off"
    /\ current_url = 0
    /\ max_redirects = 0
    /\ retry_count = 0
    /\ retry_delay = 0
    /\ redirect_count = 0
    /\ response = NoResponse
    /\ respLog = << >>
    /\ sleeps = << >>
    /\ flaky = 0
    /\ outcome = NoOutcome

\* No library call is examined.
LibOff ==
    /\ lpc = "off"
    /\ pattern = << >>
    /\ path = << >>
    /\ matches = FALSE
    /\ robot = EmptyRobot
    /\ user_agent = << >>
    /\ group = 0
    /\ allowed = FALSE
    /\ page_url = NoUrl
    /\ robots_url = NoUrl
    /\ anchors = << >>
    /\ extracted = NoLinks

\* SqliteCrawler::new and the locals of start before its first statement.
InitLocals ==
    /\ pages = <<ForeignPage>>
    /\ links = << >>
    /\ domains = << >>
    /\ robots_cache = [h \in Hosts |-> NoRobot]
    /\ domain_last_crawl = [h \in Hosts \cup {NoHost} |-> -1]
    /\ domain_crawl_delays = [h \in Hosts \cup {NoHost} |-> -1]
    /\ now = 0
    /\ next_url = None
    /\ batch_urls = << >>
    /\ seen_domains = {}
    /\ inflight = {}
    /\ results = << >>
    /\ idx = 0
    /\ faults = 0
    /\ queue = << >>
    /\ visited = {}
    /\ stdout_robot = NoRobot
    /\ calls = 0
    /\ lastCall = NoCall
    /\ handed = << >>
    /\ fetchLog = << >>
    /\ save_ok = {}
    /\ marked = {}
    /\ robots_requests = [h \in Hosts \cup {NoHost} |-> 0]

InitCommon ==
    /\ tie \in {"asc", "desc"}
    /\ resumed = FALSE
    /\ FetchOff
    /\ LibOff
    /\ InitLocals

Init ==
    /\ InitCommon
    /\ backend = "sqlite"
    /\ seeds \in SeedLists
    /\ pc = "start"
    /\ url_queue = <<ForeignQueueItem>>

\* The statements of an operation that may fail: 0 is "none fails".
FaultPoints(n) == {0} \cup (IF faults < MaxFaults THEN 1..n ELSE {})

Inject(f) == faults' = IF f = 0 THEN faults ELSE faults + 1

\* ------------------------------------------------------ IAsyncCrawler::start
\* traits.rs:45  self.add_to_queue(seed_url).await?
StartAddSeeds ==
    /\ pc = "start"
    /\ IF backend = "sqlite"
       THEN \E f \in FaultPoints(Len(seeds)) :
            LET r == sqlite_add_to_queue(url_queue, seeds, f)
            IN /\ url_queue' = r.q
               /\ pc' = IF r.ok THEN "loop" ELSE "error"
               /\ Inject(f)
               /\ UNCHANGED queue
       ELSE /\ queue' = stdout_add_to_queue(queue, visited, seeds)
            /\ pc' = "loop"
            /\ UNCHANGED <<url_queue, faults>>
    /\ UNCHANGED <<pages, links, domains, hostMaps, now, next_url, batchVars,
                   visited, stdout_robot, apiVars, histVars, configVars,
                   fetchVars, resumed, robots_requests, libVars>>

\* traits.rs:52-58  the head of the loop
LoopNext ==
    /\ pc = "loop"
    /\ IF backend = "sqlite"
       THEN \E f \in FaultPoints(2) :
            LET r == sqlite_next_queue(url_queue, tie, f)
            IN /\ (f # 0 => PendingRows(url_queue) # {})
               /\ url_queue' = r.q
               /\ next_url' = r.ret
               /\ pc' = IF r.ret = None THEN "done" ELSE "delay"
               /\ handed' = IF r.ret = None THEN handed ELSE Append(handed, r.ret)
               /\ Inject(f)
               /\ UNCHANGED queue
       ELSE LET r == stdout_next_queue(queue)
            IN /\ queue' = r.queue
               /\ next_url' = r.ret
               /\ pc' = IF r.ret = None THEN "done" ELSE "delay"
               /\ handed' = IF r.ret = None THEN handed ELSE Append(handed, r.ret)
               /\ UNCHANGED <<url_queue, faults>>
    /\ UNCHANGED <<pages, links, domains, hostMaps, now, batchVars, visited,
                   stdout_robot, apiVars, fetchLog, save_ok, marked, configVars,
                   fetchVars, resumed, robots_requests, libVars>>

\* traits.rs:60-74  sleep the rest of the crawl delay of the domain
EnforceDelay ==
    /\ pc = "delay"
    /\ LET domain == HostOf(next_url)
           last_crawl == domain_last_crawl[domain]
           delay == Max(domain_crawl_delays[domain], 0)
           elapsed == now - last_crawl
       IN now' = IF last_crawl # -1 /\ elapsed < delay
                 THEN now + (delay - elapsed) ELSE now
    /\ pc' = "robots"
    /\ UNCHANGED <<storeVars, hostMaps, next_url, batchVars, faults, stdoutVars,
                   apiVars, histVars, configVars,
                   fetchVars, resumed, robots_requests, libVars>>

\* SqliteCrawler::fetch_robot_txt. f = 1: the select of the domain record
\* fails (Err); f = 2: the request fails in transport (Ok(None)). A stored
\* robots_txt is used when there is one; otherwise whatever body the server
\* sends, under any status, is parsed. The result is an Option<Robot>.
sqlite_fetch_robot_txt(dm, u, f) ==
    LET i == DomainFind(dm, HostOf(u))
        resp == RobotsResponse(HostOf(u))
    IN IF f = 1 THEN NoRobot
       ELSE IF i # 0 /\ dm[i].robots_txt # NoRobot THEN dm[i].robots_txt
       ELSE IF f = 2 \/ resp.kind = "err" THEN NoRobot
       ELSE <<resp.robot>>

\* SqliteCrawler::fetch_robot_txt sends `reqwest::get(&robots_url)` when the
\* select succeeded and the domain record holds no robots_txt.
sqlite_requests_robot_txt(dm, u, f) ==
    LET i == DomainFind(dm, HostOf(u))
    IN f # 1 /\ ~(i # 0 /\ dm[i].robots_txt # NoRobot)

\* SqliteCrawler::get_robot_txt: Err for a URL without a host, else the
\* cached Robot of the host, if any.
sqlite_get_robot_txt(cache, u) ==
    IF HostOf(u) = NoHost THEN [ok |-> FALSE, robot |-> NoRobot]
    ELSE [ok |-> TRUE, robot |-> cache[HostOf(u)]]

\* traits.rs:76-84  fetch and cache the robots.txt of the domain; the `?`
\* after get_robot_txt returns its error from start.
SetupRobots ==
    /\ pc = "robots"
    /\ LET domain == HostOf(next_url)
           cached == sqlite_get_robot_txt(robots_cache, next_url)
       IN IF backend # "sqlite"
          THEN \E held \in stdout_get_robot_txt(stdout_robot) :
                IF held # NoRobot
                THEN /\ pc' = "policy"
                     /\ UNCHANGED <<hostMaps, faults, robots_requests, stdout_robot>>
                ELSE \E f \in FaultPoints(1) :
                     LET fetched == stdout_fetch_robot_txt(next_url, f)
                     IN /\ Inject(f)
                        /\ pc' = "policy"
                        /\ robots_requests' = [robots_requests EXCEPT ![domain] = @ + 1]
                        /\ UNCHANGED <<robots_cache, domain_last_crawl>>
                        /\ IF fetched = NoRobot
                           THEN UNCHANGED <<stdout_robot, domain_crawl_delays>>
                           ELSE /\ domain_crawl_delays' =
                                     [domain_crawl_delays EXCEPT
                                         ![domain] = Max(crawl_delay(fetched[1], DelayAgent), 0)]
                                /\ stdout_robot' = fetched
          ELSE IF ~cached.ok
          THEN /\ pc' = "error"
               /\ UNCHANGED <<hostMaps, faults, robots_requests, stdout_robot>>
          ELSE IF cached.robot # NoRobot
          THEN /\ pc' = "policy"
               /\ UNCHANGED <<hostMaps, faults, robots_requests, stdout_robot>>
          ELSE \E f \in FaultPoints(2) :
                LET fetched == sqlite_fetch_robot_txt(domains, next_url, f)
                IN /\ Inject(f)
                   /\ pc' = "policy"
                   /\ robots_requests' =
                        IF sqlite_requests_robot_txt(domains, next_url, f)
                        THEN [robots_requests EXCEPT ![domain] = @ + 1]
                        ELSE robots_requests
                   /\ UNCHANGED <<domain_last_crawl, stdout_robot>>
                   /\ IF fetched = NoRobot
                      THEN UNCHANGED <<robots_cache, domain_crawl_delays>>
                      ELSE /\ domain_crawl_delays' =
                                [domain_crawl_delays EXCEPT
                                    ![domain] = Max(crawl_delay(fetched[1], DelayAgent), 0)]
                           /\ robots_cache' = [robots_cache EXCEPT ![domain] = fetched]
    /\ UNCHANGED <<storeVars, now, next_url, batchVars, queue, visited, apiVars,
                   histVars, configVars,
                   fetchVars, resumed, libVars>>

\* traits.rs:86-102  policy check, has_seen, the time stamp and the new batch.
\* f = 1, 2: check_robot_policy fails; f = 3: the select of has_seen fails.
CheckPolicy ==
    /\ pc = "policy"
    /\ \E f \in IF backend = "sqlite" THEN FaultPoints(3) ELSE {0} :
        LET domain == HostOf(next_url)
            r == IF backend = "sqlite"
                 THEN sqlite_check_robot_policy(domains, next_url, IF f = 3 THEN 0 ELSE f)
                 ELSE [domains |-> domains,
                       allowed |-> stdout_check_robot_policy(stdout_robot, next_url)]
            seen == IF backend = "sqlite"
                    THEN sqlite_has_seen(pages, next_url, IF f = 3 THEN 1 ELSE 0)
                    ELSE stdout_has_seen(visited, next_url)
        IN /\ (f = 2 => DomainFind(domains, domain) = 0)
           /\ (f = 3 => r.allowed)
           /\ Inject(f)
           /\ domains' = r.domains
           /\ IF ~r.allowed \/ seen
              THEN /\ pc' = "loop"
                   /\ UNCHANGED <<domain_last_crawl, batch_urls, seen_domains>>
              ELSE /\ pc' = "batch"
                   /\ domain_last_crawl' = [domain_last_crawl EXCEPT ![domain] = now]
                   /\ batch_urls' = <<next_url>>
                   /\ seen_domains' = {domain}
    /\ UNCHANGED <<url_queue, pages, links, robots_cache, domain_crawl_delays, now,
                   next_url, inflight, results, idx, stdoutVars, apiVars, histVars,
                   configVars,
                   fetchVars, resumed, robots_requests, libVars>>

\* traits.rs:111  `!seen_domains.contains(&url_domain)`, with the mutant that
\* takes a URL of any domain.
BatchAcceptsAnyDomain(seen, url_domain) == TRUE

BatchAccepts(seen, url_domain) == url_domain \notin seen

\* traits.rs:105-127  one turn of the loop that collects the batch.
\* f = 1, 2: next_queue fails; f = 3: has_seen fails; f = 4, 5:
\* check_robot_policy fails.
BatchCollect ==
    /\ pc = "batch"
    /\ IF Len(batch_urls) >= BatchLimit
       THEN /\ pc' = "fetch"
            /\ UNCHANGED <<url_queue, queue, domains, batch_urls, seen_domains, faults,
                           handed>>
       ELSE \E f \in IF backend = "sqlite" THEN FaultPoints(5) ELSE {0} :
            LET nq == IF backend = "sqlite"
                      THEN sqlite_next_queue(url_queue, tie, IF f \in {1, 2} THEN f ELSE 0)
                      ELSE [q |-> url_queue, ret |-> stdout_next_queue(queue).ret]
                url == nq.ret
                url_domain == HostOf(url)
                fresh == BatchAccepts(seen_domains, url_domain)
                seen == IF backend = "sqlite"
                        THEN sqlite_has_seen(pages, url, IF f = 3 THEN 1 ELSE 0)
                        ELSE stdout_has_seen(visited, url)
                r == IF backend = "sqlite"
                     THEN sqlite_check_robot_policy(domains, url,
                                                    IF f \in {4, 5} THEN f - 3 ELSE 0)
                     ELSE [domains |-> domains,
                           allowed |-> stdout_check_robot_policy(stdout_robot, url)]
            IN /\ (f \in {1, 2} => PendingRows(url_queue) # {})
               /\ (f >= 3 => url # None /\ fresh)
               /\ (f >= 4 => ~seen)
               /\ (f = 5 => DomainFind(domains, url_domain) = 0)
               /\ Inject(f)
               /\ url_queue' = nq.q
               /\ queue' = IF backend = "sqlite" THEN queue
                            ELSE stdout_next_queue(queue).queue
               /\ IF url = None
                  THEN /\ pc' = "fetch"
                       /\ UNCHANGED <<domains, batch_urls, seen_domains, handed>>
                  ELSE /\ pc' = "batch"
                       /\ handed' = Append(handed, url)
                       /\ IF fresh /\ ~seen
                          THEN /\ domains' = r.domains
                               /\ IF r.allowed
                                  THEN /\ seen_domains' = seen_domains \cup {url_domain}
                                       /\ batch_urls' = Append(batch_urls, url)
                                  ELSE UNCHANGED <<batch_urls, seen_domains>>
                          ELSE UNCHANGED <<domains, batch_urls, seen_domains>>
    /\ UNCHANGED <<pages, links, hostMaps, now, next_url, inflight, results, idx,
                   visited, stdout_robot, apiVars, fetchLog, save_ok, marked,
                   configVars, fetchVars, resumed, robots_requests, libVars>>

\* traits.rs:132-135  one fetch_page future per URL of the batch
Dispatch ==
    /\ pc = "fetch"
    /\ inflight' = DOMAIN batch_urls
    /\ results' = [i \in DOMAIN batch_urls |-> "running"]
    /\ fetchLog' = fetchLog \o
            [i \in DOMAIN batch_urls |->
                [url |-> batch_urls[i], host |-> HostOf(batch_urls[i]), time |-> now]]
    /\ pc' = "join"
    /\ UNCHANGED <<storeVars, hostMaps, now, next_url, batch_urls, seen_domains, idx,
                   faults, stdoutVars, apiVars, handed, save_ok, marked, configVars,
                   fetchVars, resumed, robots_requests, libVars>>

\* SqliteCrawler::fetch_page: Ok with the response of reqwest::get, whatever
\* its status; Err when the request fails in transport (f = 1).
sqlite_fetch_page(u, f) ==
    IF f = 1 THEN "err"
    ELSE IF PageResponse(u).kind = "resp" THEN "ok" ELSE "err"

\* StdOutCrawler::fetch_page (stdout.rs:53-191): Ok for 200 with no
\* Content-Type or one that contains text/html; Err for any other status
\* (after its retries, for 500 and 503) and when the connection fails
\* throughout (f = 1).
stdout_fetch_page(u, f) ==
    LET resp == PageResponse(u)
    IN IF f # 1 /\ resp.kind = "resp" /\ resp.status = 200
          /\ (resp.content_type = NoHeader \/ Contains(resp.content_type[1], TextHtml))
       THEN "ok" ELSE "err"

\* One of the futures under join_all completes.
FetchComplete ==
    /\ pc = "join"
    /\ \E i \in inflight : \E f \in FaultPoints(1) :
        /\ results' = [results EXCEPT ![i] =
                            IF backend = "sqlite" THEN sqlite_fetch_page(batch_urls[i], f)
                            ELSE stdout_fetch_page(batch_urls[i], f)]
        /\ inflight' = inflight \ {i}
        /\ Inject(f)
    /\ UNCHANGED <<storeVars, hostMaps, now, next_url, batch_urls, seen_domains, idx,
                   pc, stdoutVars, apiVars, histVars, configVars,
                   fetchVars, resumed, robots_requests, libVars>>

\* traits.rs:137  join_all returns when every future has completed
JoinAll ==
    /\ pc = "join"
    /\ inflight = {}
    /\ pc' = "process"
    /\ idx' = 1
    /\ UNCHANGED <<storeVars, hostMaps, now, next_url, batch_urls, seen_domains,
                   inflight, results, faults, stdoutVars, apiVars, histVars, configVars,
                   fetchVars, resumed, robots_requests, libVars>>

\* traits.rs:140-171  the next result: a failed fetch is skipped, the body of
\* a response is decoded (f = 1: extract_content fails). After the last
\* result the loop starts over.
ProcessResult ==
    /\ pc = "process"
    /\ IF idx > Len(batch_urls)
       THEN /\ pc' = "loop"
            /\ batch_urls' = << >>
            /\ seen_domains' = {}
            /\ results' = << >>
            /\ idx' = 0
            /\ UNCHANGED faults
       ELSE IF results[idx] = "err"
       THEN /\ idx' = idx + 1
            /\ UNCHANGED <<pc, batch_urls, seen_domains, results, faults>>
       ELSE \E f \in FaultPoints(1) :
            /\ Inject(f)
            /\ IF f = 1
               THEN idx' = idx + 1 /\ UNCHANGED pc
               ELSE pc' = "save" /\ UNCHANGED idx
            /\ UNCHANGED <<batch_urls, seen_domains, results>>
    /\ UNCHANGED <<storeVars, hostMaps, now, next_url, inflight, stdoutVars, apiVars,
                   histVars, configVars,
                   fetchVars, resumed, robots_requests, libVars>>

\* traits.rs:173-179 with the `continue` of the error arm left out: the
\* result is processed further although save failed.
SaveWithoutContinue ==
    /\ pc = "save"
    /\ \E f \in FaultPoints(3) :
        LET r == sqlite_save(pages, links, batch_urls[idx], f)
        IN /\ Inject(f)
           /\ pages' = r.pages
           /\ links' = r.links
           /\ save_ok' = IF r.ok THEN save_ok \cup {batch_urls[idx]} ELSE save_ok
           /\ pc' = "mark"
    /\ UNCHANGED <<url_queue, domains, hostMaps, now, next_url, batch_urls,
                   seen_domains, inflight, results, idx, stdoutVars, apiVars, handed,
                   fetchLog, marked, configVars, fetchVars, resumed, robots_requests, libVars>>

\* traits.rs:173-179  save; on error log and continue
Save ==
    /\ pc = "save"
    /\ \E f \in IF backend = "sqlite" THEN FaultPoints(3) ELSE {0} :
        LET r == IF backend = "sqlite" THEN sqlite_save(pages, links, batch_urls[idx], f)
                 ELSE [pages |-> pages, links |-> links, ok |-> TRUE]
        IN /\ Inject(f)
           /\ pages' = r.pages
           /\ links' = r.links
           /\ IF r.ok
              THEN /\ save_ok' = save_ok \cup {batch_urls[idx]}
                   /\ pc' = "mark"
                   /\ UNCHANGED idx
              ELSE /\ idx' = idx + 1
                   /\ pc' = "process"
                   /\ UNCHANGED save_ok
    /\ UNCHANGED <<url_queue, domains, hostMaps, now, next_url, batch_urls,
                   seen_domains, inflight, results, stdoutVars, apiVars, handed,
                   fetchLog, marked, configVars,
                   fetchVars, resumed, robots_requests, libVars>>

\* traits.rs:181-186  mark_as_visited; on error log and continue
MarkVisited ==
    /\ pc = "mark"
    /\ \E f \in IF backend = "sqlite" THEN FaultPoints(2) ELSE {0} :
        LET r == IF backend = "sqlite"
                 THEN sqlite_mark_as_visited(url_queue, batch_urls[idx], f)
                 ELSE [q |-> url_queue, ok |-> TRUE]
        IN /\ (f = 2 => QueueFind(url_queue, batch_urls[idx]) # 0)
           /\ Inject(f)
           /\ url_queue' = r.q
           /\ visited' = IF backend = "sqlite" THEN visited
                          ELSE stdout_mark_as_visited(visited, batch_urls[idx])
           /\ IF r.ok
              THEN /\ marked' = marked \cup {batch_urls[idx]}
                   /\ pc' = "enqueue"
                   /\ UNCHANGED idx
              ELSE /\ idx' = idx + 1
                   /\ pc' = "process"
                   /\ UNCHANGED marked
    /\ UNCHANGED <<pages, links, domains, hostMaps, now, next_url, batch_urls,
                   seen_domains, inflight, results, queue, stdout_robot, apiVars,
                   handed, fetchLog, save_ok, configVars,
                   fetchVars, resumed, robots_requests, libVars>>

\* traits.rs:188-205  parse_links, then add_to_queue; an error is logged
Enqueue ==
    /\ pc = "enqueue"
    /\ IF backend = "sqlite"
       THEN LET urls == parse_links(batch_urls[idx])
            IN \E f \in FaultPoints(Len(urls)) :
                /\ Inject(f)
                /\ url_queue' = sqlite_add_to_queue(url_queue, urls, f).q
                /\ UNCHANGED queue
       ELSE /\ queue' = stdout_add_to_queue(queue, visited,
                                            stdout_parse_links(batch_urls[idx]))
            /\ UNCHANGED <<url_queue, faults>>
    /\ idx' = idx + 1
    /\ pc' = "process"
    /\ UNCHANGED <<pages, links, domains, hostMaps, now, next_url, batch_urls,
                   seen_domains, inflight, results, visited, stdout_robot, apiVars,
                   histVars, configVars,
                   fetchVars, resumed, robots_requests, libVars>>

\* Time passes. The program reads the clock in EnforceDelay (elapsed), in
\* CheckPolicy (Instant::now) and when the fetches start; time that passes
\* elsewhere is observed at the next of these points.
Tick ==
    /\ pc \in {"delay", "policy", "fetch"}
    /\ now < MaxTime
    /\ now' = now + 1
    /\ UNCHANGED <<storeVars, hostMaps, next_url, batchVars, faults, pc, stdoutVars,
                   apiVars, histVars, configVars,
                   fetchVars, resumed, robots_requests, libVars>>

Next ==
    \/ StartAddSeeds
    \/ LoopNext
    \/ EnforceDelay
    \/ SetupRobots
    \/ CheckPolicy
    \/ BatchCollect
    \/ Dispatch
    \/ FetchComplete
    \/ JoinAll
    \/ ProcessResult
    \/ Save
    \/ MarkVisited
    \/ Enqueue
    \/ Tick

Spec == Init /\ [][Next]_vars

\* start is one sequential task: each of its statements is executed once the
\* statement before it has completed, and every await of the loop completes
\* (the store answers, a sleep ends, a request ends in a response or an error).
\* The runs whose whole course is followed start from the seed lists whose
\* first iteration takes one URL; a0 leads to batches of several hosts.
LiveSeedLists == { <<"a0">>, <<"b0">>, <<"b0", "b0">>, <<"m0", "c0">>, <<"d0">> }

InitLive == Init /\ seeds \in LiveSeedLists

SpecLive == InitLive /\ [][Next]_vars /\ WF_vars(Next)

\* start on the StdOutCrawler (main.rs).
StdoutSeedLists ==
    { <<"a0">>, <<"b0", "b0">>, <<"a2", "b2", "c0", "d0", "e0", "f0">>,
      <<"e0", "a2", "b2", "c0", "d0", "e0">> }

InitStdout ==
    /\ InitCommon
    /\ backend = "stdout"
    /\ seeds \in StdoutSeedLists
    /\ pc = "start"
    /\ url_queue = << >>

SpecStdout == InitStdout /\ [][Next]_vars

\* ------------------------------------------------------ interruption, resume
\* The host process is terminated while start runs: what the crawler holds in
\* memory is lost, the database stays as it is.
Interrupt ==
    /\ pc \in {"start", "loop", "delay", "robots", "policy", "batch", "fetch",
               "join", "process", "save", "mark", "enqueue"}
    /\ pc' = "killed"
    /\ UNCHANGED <<storeVars, hostMaps, now, next_url, batchVars, faults, stdoutVars,
                   apiVars, histVars, configVars, fetchVars, resumed, robots_requests, libVars>>

\* A new process: SqliteCrawler::new on the same database with the same
\* crawl_session_id, then start with the same seeds. Neither does anything
\* to the rows the terminated run left behind.
Restart ==
    /\ pc = "killed"
    /\ pc' = "start"
    /\ resumed' = TRUE
    /\ robots_cache' = [h \in Hosts |-> NoRobot]
    /\ domain_last_crawl' = [h \in Hosts \cup {NoHost} |-> -1]
    /\ domain_crawl_delays' = [h \in Hosts \cup {NoHost} |-> -1]
    /\ next_url' = None
    /\ batch_urls' = << >>
    /\ seen_domains' = {}
    /\ inflight' = {}
    /\ results' = << >>
    /\ idx' = 0
    /\ handed' = << >>
    /\ fetchLog' = << >>
    /\ save_ok' = {}
    /\ marked' = {}
    /\ robots_requests' = [h \in Hosts \cup {NoHost} |-> 0]
    /\ UNCHANGED <<storeVars, now, faults, stdoutVars, apiVars, configVars, fetchVars,
                   libVars>>

NextResume ==
    \/ Next
    \/ Interrupt
    \/ Restart

\* The crawls that are interrupted and resumed start from one seed.
ResumeSeedLists == { <<"a0">>, <<"b0">> }

InitResume == Init /\ seeds \in ResumeSeedLists

SpecResume == InitResume /\ [][NextResume]_vars

\* ------------------------------------------------------- operator override
\* The hosts the operator forbids: before the crawl is started, the operator
\* writes a row of table domains with allow_crawl = false. No statement of
\* the program writes this column of an existing row.
DeniedHosts == {"h2"}

OperatorDenies ==
    /\ pc = "start"
    /\ domains = << >>
    /\ \E h \in DeniedHosts :
        domains' = <<[domain |-> h, allow_crawl |-> FALSE, robots_txt |-> NoRobot]>>
    /\ UNCHANGED <<url_queue, pages, links, hostMaps, now, next_url, batchVars, faults,
                   pc, stdoutVars, apiVars, histVars, configVars, fetchVars, resumed,
                   robots_requests, libVars>>

NextOverride ==
    \/ Next
    \/ OperatorDenies

SpecOverride == Init /\ [][NextOverride]_vars

\* ------------------------------------------- the store interface, call by call
\* The queue operations of IAsyncCrawler called in any order on either
\* crawler, as the trait allows.
ApiUrls == {"a0", "a1"}
ApiLists == { <<"a0">>, <<"a1">>, <<"a0", "a0">>, <<"a0", "a1">> }

\* A session that already holds entries, one of them raised in priority.
ResumedQueue ==
    << ForeignQueueItem,
       [session |-> crawl_session_id, url |-> "a0", priority |-> 0,
        retry_count |-> 0, status |-> "pending"],
       [session |-> crawl_session_id, url |-> "a1", priority |-> 1,
        retry_count |-> 0, status |-> "pending"] >>

ApiInit ==
    /\ InitCommon
    /\ backend \in {"sqlite", "stdout"}
    /\ seeds = << >>
    /\ pc = "api"
    /\ url_queue \in IF backend = "sqlite"
                     THEN {<<ForeignQueueItem>>, ResumedQueue}
                     ELSE {<< >>}

Called(op, urls, ret) ==
    /\ calls' = calls + 1
    /\ lastCall' = [op |-> op, urls |-> urls, ret |-> ret,
                    before |-> url_queue, beforeq |-> queue, beforep |-> pages]

CallAddToQueue ==
    /\ pc = "api"
    /\ calls < MaxCalls
    /\ \E urls \in ApiLists :
        IF backend = "sqlite"
        THEN \E f \in FaultPoints(Len(urls)) :
                LET r == sqlite_add_to_queue(url_queue, urls, f)
                IN /\ url_queue' = r.q
                   /\ Inject(f)
                   /\ Called("add_to_queue", urls, IF r.ok THEN "ok" ELSE "err")
                   /\ UNCHANGED queue
        ELSE /\ queue' = stdout_add_to_queue(queue, visited, urls)
             /\ Called("add_to_queue", urls, "ok")
             /\ UNCHANGED <<url_queue, faults>>
    /\ UNCHANGED <<pages, links, domains, hostMaps, now, next_url, batchVars, pc,
                   visited, stdout_robot, histVars, configVars,
                   fetchVars, resumed, robots_requests, libVars>>

CallNextQueue ==
    /\ pc = "api"
    /\ calls < MaxCalls
    /\ IF backend = "sqlite"
       THEN \E f \in FaultPoints(2) :
                LET r == sqlite_next_queue(url_queue, tie, f)
                IN /\ (f # 0 => PendingRows(url_queue) # {})
                   /\ url_queue' = r.q
                   /\ Inject(f)
                   /\ Called("next_queue", << >>, r.ret)
                   /\ handed' = IF r.ret = None THEN handed ELSE Append(handed, r.ret)
                   /\ UNCHANGED queue
       ELSE LET r == stdout_next_queue(queue)
            IN /\ queue' = r.queue
               /\ Called("next_queue", << >>, r.ret)
               /\ handed' = IF r.ret = None THEN handed ELSE Append(handed, r.ret)
               /\ UNCHANGED <<url_queue, faults>>
    /\ UNCHANGED <<pages, links, domains, hostMaps, now, next_url, batchVars, pc,
                   visited, stdout_robot, fetchLog, save_ok, marked, configVars,
                   fetchVars, resumed, robots_requests, libVars>>

CallMarkAsVisited ==
    /\ pc = "api"
    /\ calls < MaxCalls
    /\ \E u \in ApiUrls :
        IF backend = "sqlite"
        THEN \E f \in FaultPoints(2) :
                LET r == sqlite_mark_as_visited(url_queue, u, f)
                IN /\ (f = 2 => QueueFind(url_queue, u) # 0)
                   /\ url_queue' = r.q
                   /\ Inject(f)
                   /\ Called("mark_as_visited", <<u>>, IF r.ok THEN "ok" ELSE "err")
                   /\ marked' = IF r.ok THEN marked \cup {u} ELSE marked
                   /\ UNCHANGED visited
        ELSE /\ visited' = stdout_mark_as_visited(visited, u)
             /\ Called("mark_as_visited", <<u>>, "ok")
             /\ marked' = marked \cup {u}
             /\ UNCHANGED <<url_queue, faults>>
    /\ UNCHANGED <<pages, links, domains, hostMaps, now, next_url, batchVars, pc,
                   queue, stdout_robot, handed, fetchLog, save_ok, configVars,
                   fetchVars, resumed, robots_requests, libVars>>

\* save(url, html, headers). The StdOutCrawler prints the page and keeps
\* nothing.
CallSave ==
    /\ pc = "api"
    /\ calls < MaxCalls
    /\ \E u \in ApiUrls :
        IF backend = "sqlite"
        THEN \E f \in FaultPoints(3) :
                LET r == sqlite_save(pages, links, u, f)
                IN /\ pages' = r.pages
                   /\ links' = r.links
                   /\ Inject(f)
                   /\ Called("save", <<u>>, IF r.ok THEN "ok" ELSE "err")
                   /\ save_ok' = IF r.ok THEN save_ok \cup {u} ELSE save_ok
        ELSE /\ Called("save", <<u>>, "ok")
             /\ save_ok' = save_ok \cup {u}
             /\ UNCHANGED <<pages, links, faults>>
    /\ UNCHANGED <<url_queue, domains, hostMaps, now, next_url, batchVars, pc,
                   stdoutVars, handed, fetchLog, marked, configVars,
                   fetchVars, resumed, robots_requests, libVars>>

ApiNext ==
    \/ CallAddToQueue
    \/ CallNextQueue
    \/ CallMarkAsVisited
    \/ CallSave

SpecApi == ApiInit /\ [][ApiNext]_vars

\* ------------------------------------------------------------ the fetch loop
\* FetchedPage::fetch (fetch.rs) and StdOutCrawler::fetch_page (stdout.rs),
\* the same loop but for the first retry delay and the 200 arm, run against
\* a server that answers a chain of redirects and fails now and then. The
\* client hands every response to the loop, redirects included.
engineVars ==
    <<storeVars, hostMaps, now, next_url, batchVars, faults, stdoutVars, apiVars,
      histVars, configVars, pc, resumed, robots_requests, libVars>>

InitFetch ==
    /\ InitLocals
    /\ tie = "asc"
    /\ resumed = FALSE
    /\ backend = "none"
    /\ seeds = << >>
    /\ pc = "fetcher"
    /\ url_queue = << >>
    /\ fetcher \in {"fetch", "stdout"}
    /\ chain \in 0..MaxChain
    /\ final \in Finals
    /\ fpc = "start"
    /\ current_url = 0
    /\ max_redirects = 0
    /\ retry_count = 0
    /\ retry_delay = 0
    /\ redirect_count = 0
    /\ response = NoResponse
    /\ respLog = << >>
    /\ sleeps = << >>
    /\ flaky = 0
    /\ outcome = NoOutcome
    /\ LibOff

\* fetch.rs:27-32 (stdout.rs:54-58)  the locals of the loop
FetchStart ==
    /\ fpc = "start"
    /\ current_url' = 0
    /\ max_redirects' = InitialMaxRedirects
    /\ retry_count' = 0
    /\ retry_delay' = IF fetcher = "fetch" THEN FetchRetryDelay ELSE StdoutRetryDelay
    /\ redirect_count' = 0
    /\ fpc' = "loop"
    /\ UNCHANGED <<engineVars, fetcher, chain, final, response, respLog, sleeps,
                   flaky, outcome>>

\* fetch.rs:38-46  the head of the loop: the redirect budget is tested, then
\* the request is sent. The server answers as the chain says, or with a
\* transient failure.
FetchSend ==
    /\ fpc = "loop"
    /\ IF max_redirects = 0
       THEN /\ outcome' = Failure("TooManyRedirects")
            /\ fpc' = "done"
            /\ UNCHANGED <<response, respLog, flaky>>
       ELSE \E t \in {"none"} \cup (IF flaky < MaxFlaky THEN {"500", "503", "down"} ELSE {}) :
            LET r == IF t = "none" THEN ServerResponse(current_url, chain, final)
                     ELSE FinalResponse(t)
            IN /\ response' = r
               /\ respLog' = Append(respLog, r.status)
               /\ flaky' = IF t = "none" THEN flaky ELSE flaky + 1
               /\ fpc' = "match"
               /\ UNCHANGED outcome
    /\ UNCHANGED <<engineVars, fetcher, chain, final, current_url, max_redirects,
                   retry_count, retry_delay, redirect_count, sleeps>>

\* The retry arms without the count of the retries: the loop sleeps and
\* sends again whatever retry_count says.
FetchRetryUncounted(exhausted) ==
    /\ sleeps' = Append(sleeps, retry_delay)
    /\ retry_delay' = NextRetryDelay(retry_delay)
    /\ fpc' = "loop"
    /\ UNCHANGED <<outcome, retry_count>>

\* fetch.rs:52-72 and 148-172  the retry arms: sleep, double the delay and
\* loop while retries are left, else return the error `exhausted`.
FetchRetry(exhausted) ==
    IF retry_count < max_retries
    THEN /\ retry_count' = retry_count + 1
         /\ sleeps' = Append(sleeps, retry_delay)
         /\ retry_delay' = NextRetryDelay(retry_delay)
         /\ fpc' = "loop"
         /\ UNCHANGED outcome
    ELSE /\ outcome' = Failure(exhausted)
         /\ fpc' = "done"
         /\ UNCHANGED <<retry_count, sleeps, retry_delay>>

\* fetch.rs:77-118 and stdout.rs:111-121  the 200 arm. FetchedPage::fetch
\* fails when the header is missing and takes any value; StdOutCrawler
\* takes a missing header and fails when the value lacks "text/html".
FetchOk ==
    IF fetcher = "fetch"
    THEN IF response.content_type = NoHeader
         THEN Failure("NoContentType")
         ELSE [kind |-> "Ok", url |-> 0, final_url |-> current_url]
    ELSE IF response.content_type # NoHeader
            /\ ~Contains(response.content_type[1], TextHtml)
         THEN Failure("NotHtml")
         ELSE [kind |-> "Ok", url |-> 0, final_url |-> current_url]

\* The loop with `retry_count = 0` left out of the redirect arm: the retries
\* spent on one URL are not given back at the next.
FetchMatchKeepsRetries ==
    /\ fpc = "match"
    /\ IF response.kind = "err"
       THEN /\ FetchRetry("NetworkError")
            /\ UNCHANGED <<current_url, max_redirects, redirect_count>>
       ELSE IF response.status = 200
       THEN /\ outcome' = FetchOk
            /\ fpc' = "done"
            /\ UNCHANGED <<current_url, max_redirects, retry_count, retry_delay,
                           redirect_count, sleeps>>
       ELSE IF IsRedirect(response.status)
       THEN IF response.location = -1
            THEN /\ outcome' = Failure("NoLocation")
                 /\ fpc' = "done"
                 /\ UNCHANGED <<current_url, max_redirects, retry_count, retry_delay,
                                redirect_count, sleeps>>
            ELSE /\ current_url' = response.location
                 /\ max_redirects' = max_redirects - 1
                 /\ redirect_count' = redirect_count + 1
                 /\ fpc' = "loop"
                 /\ UNCHANGED <<retry_count, retry_delay, sleeps, outcome>>
       ELSE IF IsServerError(response.status)
       THEN /\ FetchRetry("ServerError")
            /\ UNCHANGED <<current_url, max_redirects, redirect_count>>
       ELSE /\ outcome' = Failure("HttpError")
            /\ fpc' = "done"
            /\ UNCHANGED <<current_url, max_redirects, retry_count, retry_delay,
                           redirect_count, sleeps>>
    /\ UNCHANGED <<engineVars, fetcher, chain, final, response, respLog, flaky>>

\* fetch.rs:46-186  what the loop does with the result of send
FetchMatch ==
    /\ fpc = "match"
    /\ IF response.kind = "err"
       THEN /\ FetchRetry("NetworkError")
            /\ UNCHANGED <<current_url, max_redirects, redirect_count>>
       ELSE IF response.status = 200
       THEN /\ outcome' = FetchOk
            /\ fpc' = "done"
            /\ UNCHANGED <<current_url, max_redirects, retry_count, retry_delay,
                           redirect_count, sleeps>>
       ELSE IF IsRedirect(response.status)
       THEN IF response.location = -1
            THEN /\ outcome' = Failure("NoLocation")
                 /\ fpc' = "done"
                 /\ UNCHANGED <<current_url, max_redirects, retry_count, retry_delay,
                                redirect_count, sleeps>>
            ELSE /\ current_url' = response.location
                 /\ max_redirects' = max_redirects - 1
                 /\ redirect_count' = redirect_count + 1
                 /\ retry_count' = 0
                 /\ fpc' = "loop"
                 /\ UNCHANGED <<retry_delay, sleeps, outcome>>
       ELSE IF IsServerError(response.status)
       THEN /\ FetchRetry("ServerError")
            /\ UNCHANGED <<current_url, max_redirects, redirect_count>>
       ELSE /\ outcome' = Failure("HttpError")
            /\ fpc' = "done"
            /\ UNCHANGED <<current_url, max_redirects, retry_count, retry_delay,
                           redirect_count, sleeps>>
    /\ UNCHANGED <<engineVars, fetcher, chain, final, response, respLog, flaky>>

NextFetch ==
    \/ FetchStart
    \/ FetchSend
    \/ FetchMatch

SpecFetch == InitFetch /\ [][NextFetch]_vars

\* ------------------------------------------- the fetch loop, any server
\* A server that is free at every request: it redirects to the other of two
\* URLs that point at each other (A -> B -> A), or it gives its own answer:
\* a page, 503 every time, no connection every time, or 503 and no
\* connection in turn.
OwnAnswers == {"html", "503", "down", "503/down"}

OwnResponse(fin, n) ==
    CASE fin = "html" -> FinalResponse("html")
      [] fin = "503" -> FinalResponse("503")
      [] fin = "down" -> TransportError
      [] fin = "503/down" -> IF n % 2 = 0 THEN FinalResponse("503") ELSE TransportError

InitFetchAny ==
    /\ InitLocals
    /\ tie = "asc"
    /\ resumed = FALSE
    /\ backend = "none"
    /\ seeds = << >>
    /\ pc = "fetcher"
    /\ url_queue = << >>
    /\ fetcher \in {"fetch", "stdout"}
    /\ chain = 0
    /\ final \in OwnAnswers
    /\ fpc = "start"
    /\ current_url = 0
    /\ max_redirects = 0
    /\ retry_count = 0
    /\ retry_delay = 0
    /\ redirect_count = 0
    /\ response = NoResponse
    /\ respLog = << >>
    /\ sleeps = << >>
    /\ flaky = 0
    /\ outcome = NoOutcome
    /\ LibOff

\* fetch.rs:38-46 (stdout.rs:63-82)  the head of the loop and the request,
\* answered by the free server.
FetchSendAny ==
    /\ fpc = "loop"
    /\ IF max_redirects = 0
       THEN /\ outcome' = Failure("TooManyRedirects")
            /\ fpc' = "done"
            /\ UNCHANGED <<response, respLog>>
       ELSE \E t \in {"redirect", "own"} :
            LET r == IF t = "redirect" THEN Reply(302, NoHeader, 1 - current_url)
                     ELSE OwnResponse(final, Len(respLog))
            IN /\ response' = r
               /\ respLog' = Append(respLog, r.status)
               /\ fpc' = "match"
               /\ UNCHANGED outcome
    /\ UNCHANGED <<engineVars, fetcher, chain, final, current_url, max_redirects,
                   retry_count, retry_delay, redirect_count, sleeps, flaky>>

NextFetchAny ==
    \/ FetchStart
    \/ FetchSendAny
    \/ FetchMatch

\* The loop is one sequential task and every request ends, in a response or
\* in an error (the client has a timeout).
SpecFetchAny == InitFetchAny /\ [][NextFetchAny]_vars /\ WF_vars(NextFetchAny)

\* ------------------------------------------------------- Robot::allow, called
\* Robot::allow on the Robots that Robot::new can build (every `User-agent`
\* line opens a group of its own, check_robots.rs:75-92, so a group holds one
\* token; a token or a pattern may be empty, check_robots.rs:162).
engineOff ==
    <<storeVars, hostMaps, now, next_url, batchVars, faults, stdoutVars, apiVars,
      histVars, configVars, pc, resumed, robots_requests, fetchVars>>

RulePatterns ==
    { << >>, <<"/">>, <<"/", "a">>, <<"/", "a", "/">>, <<"/", "*">>, <<"/", "b", "$">> }

RobotPaths == { <<"/">>, <<"/", "a">>, <<"/", "a", "/", "b">>, <<"/", "b">> }

Rules == [pattern : RulePatterns, allow : BOOLEAN]

RuleLists == UNION { [1..n -> Rules] : n \in 0..MaxRules }

AgentTokens ==
    { <<"*">>, << >>, <<"g">>, <<"G", "o">>, <<"g", "o", "b">>, <<"b">> }

Agents == { <<"G", "o">>, <<"g", "o", "b">>, <<"b", "o">>, <<"*">> }

DisallowAll == << [pattern |-> <<"/">>, allow |-> FALSE] >>

NewGroup(token, rules) ==
    [user_agents |-> <<token>>, rules |-> rules, crawl_delay |-> -1]

\* One group for every agent, with any rules.
RuleRobots == { [groups |-> << NewGroup(<<"*">>, rl) >>] : rl \in RuleLists }

\* Several groups, each without rules or closed to its agents.
GroupLists ==
    UNION { [1..n -> { NewGroup(t, rl) : t \in AgentTokens, rl \in {<< >>, DisallowAll} }] :
              n \in 0..MaxGroups }

GroupRobots == { [groups |-> gl] : gl \in GroupLists }

InitRobots ==
    /\ InitLocals
    /\ tie = "asc"
    /\ resumed = FALSE
    /\ backend = "none"
    /\ seeds = << >>
    /\ pc = "library"
    /\ url_queue = << >>
    /\ FetchOff
    /\ lpc = "input"
    /\ \/ /\ robot \in RuleRobots
          /\ user_agent = CrawlerAgent
          /\ path \in RobotPaths
       \/ /\ robot \in GroupRobots
          /\ user_agent \in Agents
          /\ path = <<"/", "a">>
    /\ pattern = << >>
    /\ matches = FALSE
    /\ group = 0
    /\ allowed = FALSE
    /\ page_url = NoUrl
    /\ robots_url = NoUrl
    /\ anchors = << >>
    /\ extracted = NoLinks

\* check_robots.rs:174-193  Robot::allow (on the path of the URL), with the
\* group that find_group selected for it.
Allow ==
    /\ lpc = "input"
    /\ pc = "library"
    /\ group' = find_group(robot, user_agent)
    /\ allowed' = RobotAllow(robot, path, user_agent)
    /\ lpc' = "done"
    /\ UNCHANGED <<engineOff, pattern, path, matches, robot, user_agent, page_url,
                   robots_url, anchors, extracted>>

NextRobots == Allow

SpecRobots == InitRobots /\ [][NextRobots]_vars

\* ------------------------------------------------ Robot::matches_pattern, called
\* matches_pattern on every pattern and path over a small alphabet.
StringsOver(alphabet, n) == UNION { [1..k -> alphabet] : k \in 0..n }

Patterns == StringsOver({"/", "a", "*", "$"}, MaxPattern)

Paths == StringsOver({"/", "a", "$"}, MaxPath)

InitPattern ==
    /\ InitLocals
    /\ tie = "asc"
    /\ resumed = FALSE
    /\ backend = "none"
    /\ seeds = << >>
    /\ pc = "matcher"
    /\ url_queue = << >>
    /\ FetchOff
    /\ lpc = "input"
    /\ pattern \in Patterns
    /\ path \in Paths
    /\ matches = FALSE
    /\ robot = EmptyRobot
    /\ user_agent = << >>
    /\ group = 0
    /\ allowed = FALSE
    /\ page_url = NoUrl
    /\ robots_url = NoUrl
    /\ anchors = << >>
    /\ extracted = NoLinks

\* check_robots.rs:282-332
MatchesPattern ==
    /\ lpc = "input"
    /\ pc = "matcher"
    /\ matches' = matches_pattern(pattern, path)
    /\ lpc' = "done"
    /\ UNCHANGED <<engineOff, pattern, path, robot, user_agent, group, allowed,
                   page_url, robots_url, anchors, extracted>>

NextPattern == MatchesPattern

SpecPattern == InitPattern /\ [][NextPattern]_vars

\* -------------------------------------------- fetch_robot_txt: the request URL
\* The URL that fetch_robot_txt of either crawler hands to the HTTP client
\* for a page URL, as the client parses it.
HostA == <<"h", "1">>
HostB == <<"h", "2">>
HostIp == <<"1", ".", "2", ".", "3", ".", "4">>

RobotsTxtPath == <<"/", "r", "o", "b", "o", "t", "s", ".", "t", "x", "t">>

\* Page URLs with a host: Url keeps a port only when it is not the default
\* of the scheme.
PageUrls ==
    [scheme : {Http, Https}, host : {HostA, HostB, HostIp}, port : {0, 8080, 8443},
     path : {<<"/">>, <<"/", "d", "/", "p">>}, fragment : {<< >>}]

\* sqlite.rs:102  format!("{}://{}:/robots.txt", url.scheme(), domain)
sqlite_robots_url(u) ==
    ParseUrl(u.scheme \o <<":", "/", "/">> \o u.host \o <<":">> \o RobotsTxtPath)

\* stdout.rs:309-321  the port is written when url.port() is Some
stdout_robots_url(u) ==
    LET host == IF u.host = << >>
                THEN <<"l", "o", "c", "a", "l", "h", "o", "s", "t">> ELSE u.host
    IN IF u.port # 0
       THEN ParseUrl(u.scheme \o <<":", "/", "/">> \o host \o <<":">> \o ToDigits(u.port)
                     \o RobotsTxtPath)
       ELSE ParseUrl(u.scheme \o <<":", "/", "/">> \o host \o RobotsTxtPath)

InitRobotsUrl ==
    /\ InitLocals
    /\ tie = "asc"
    /\ resumed = FALSE
    /\ backend \in {"sqlite", "stdout"}
    /\ seeds = << >>
    /\ pc = "robots_url"
    /\ url_queue = << >>
    /\ FetchOff
    /\ lpc = "input"
    /\ pattern = << >>
    /\ path = << >>
    /\ matches = FALSE
    /\ robot = EmptyRobot
    /\ user_agent = << >>
    /\ group = 0
    /\ allowed = FALSE
    /\ page_url \in PageUrls
    /\ robots_url = NoUrl
    /\ anchors = << >>
    /\ extracted = NoLinks

\* sqlite.rs:101-103, stdout.rs:308-323  the request of fetch_robot_txt
RequestRobotTxt ==
    /\ lpc = "input"
    /\ pc = "robots_url"
    /\ LET r == IF backend = "sqlite" THEN sqlite_robots_url(page_url)
                ELSE stdout_robots_url(page_url)
       IN robots_url' = IF r.ok THEN r.url ELSE NoUrl
    /\ lpc' = "done"
    /\ UNCHANGED <<engineOff, pattern, path, matches, robot, user_agent, group, allowed,
                   page_url, anchors, extracted>>

NextRobotsUrl == RequestRobotTxt

SpecRobotsUrl == InitRobotsUrl /\ [][NextRobotsUrl]_vars

\* ------------------------------------------------- ExtractLinks::extract, called
\* ExtractLinks on documents of a few anchors. An element is given by its
\* href and by what create_link_info reads of it: its text and its title,
\* rel and target attributes (<< >> when absent).
LinkClasses == {"internal", "external", "mailto", "phone", "anchor", "javascript"}

Element(href, text, title) ==
    [href |-> href, text |-> text, title |-> title, rel |-> << >>, target |-> << >>]

\* extract_links.rs:73-93  the url is set by categorize_link
create_link_info(element) ==
    [url |-> << >>, text |-> element.text, title |-> element.title,
     rel |-> element.rel, target |-> element.target]

Push(ex, class, link_info, u) ==
    [ex EXCEPT ![class] = Append(@, [link_info EXCEPT !.url = u])]

\* extract_links.rs:123-129
add_anchor_link(ex, u, href, link_info) ==
    LET anchor_url == JoinUrl(u, href)
    IN IF anchor_url.ok THEN Push(ex, "anchor", link_info, UrlString(anchor_url.url))
       ELSE ex

\* extract_links.rs:156  (and the mutant that takes every href for a
\* relative one)
IsRelativeHrefAny(href) == TRUE

IsRelativeHref(href) ==
    \/ StartsWith(href, <<"/">>)
    \/ StartsWith(href, <<".", "/">>)
    \/ StartsWith(href, <<".", ".", "/">>)

\* extract_links.rs:132-163
add_web_link(ex, u, href, source_domain, link_info) ==
    LET parsed_url ==
            IF StartsWith(href, Http \o <<":", "/", "/">>)
               \/ StartsWith(href, Https \o <<":", "/", "/">>)
            THEN ParseUrl(href) ELSE JoinUrl(u, href)
        link_domain == DomainOrEmpty(parsed_url.url)
    IN IF ~parsed_url.ok THEN ex
       ELSE IF link_domain = source_domain /\ source_domain # << >>
       THEN Push(ex, "internal", link_info, UrlString(parsed_url.url))
       ELSE IF link_domain # << >>
       THEN Push(ex, "external", link_info, UrlString(parsed_url.url))
       ELSE IF IsRelativeHref(href)
       THEN Push(ex, "internal", link_info, UrlString(parsed_url.url))
       ELSE ex

\* extract_links.rs:96-120
categorize_link(ex, u, href, source_domain, link_info) ==
    IF StartsWith(href, <<"j", "a", "v", "a", "s", "c", "r", "i", "p", "t", ":">>)
    THEN Push(ex, "javascript", link_info, href)
    ELSE IF StartsWith(href, <<"m", "a", "i", "l", "t", "o", ":">>)
    THEN Push(ex, "mailto", link_info, href)
    ELSE IF StartsWith(href, <<"t", "e", "l", ":">>)
    THEN Push(ex, "phone", link_info, href)
    ELSE IF StartsWith(href, <<"#">>)
    THEN add_anchor_link(ex, u, href, link_info)
    ELSE add_web_link(ex, u, href, source_domain, link_info)

\* extract_links.rs:52-70  ExtractLinks::parse, from element i of the
\* document on
RECURSIVE parse(_, _, _, _)
parse(ex, u, document, i) ==
    IF i > Len(document) THEN ex
    ELSE IF document[i].href = << >> THEN parse(ex, u, document, i + 1)
    ELSE parse(categorize_link(ex, u, document[i].href, DomainOrEmpty(u),
                               create_link_info(document[i])),
               u, document, i + 1)

\* extract_links.rs:208-215  the vector is collected into a HashSet of
\* LinkInfo and back: the distinct elements, in any order.
deduplicate_vec(lnks) ==
    LET S == { lnks[i] : i \in DOMAIN lnks }
    IN { f \in [1..Cardinality(S) -> S] :
            \A i, j \in 1..Cardinality(S) : i # j => f[i] # f[j] }

\* extract_links.rs:166-205  the results deduplicate may leave
deduplicate(ex) ==
    [internal : deduplicate_vec(ex.internal), external : deduplicate_vec(ex.external),
     mailto : deduplicate_vec(ex.mailto), phone : deduplicate_vec(ex.phone),
     anchor : deduplicate_vec(ex.anchor), javascript : deduplicate_vec(ex.javascript)]

HrefSamples ==
    { <<"/", "x">>,
      <<"x">>,
      <<".", "/", "x">>,
      <<".", ".", "/", "x">>,
      <<"/", "/", "h", "2", "/", "x">>,
      <<"h", "t", "t", "p", ":", "/", "/", "h", "1", "/", "x">>,
      <<"h", "t", "t", "p", ":", "/", "/", "h", "2", "/">>,
      <<"h", "t", "t", "p", ":", "/", "/", "1", ".", "2", ".", "3", ".", "4", "/", "x">>,
      <<"h", "t", "t", "p", ":", "x">>,
      <<"#", "f">>,
      <<"j", "a", "v", "a", "s", "c", "r", "i", "p", "t", ":", "v">>,
      <<"m", "a", "i", "l", "t", "o", ":", "m">>,
      <<"t", "e", "l", ":", "1">>,
      <<"d", "a", "t", "a", ":", "x">>,
      <<"h", "t", "t", "p", ":", "/", "/">>,
      <<"f", "t", "p", ":", "/", "/", "h", "2", "/", "x">> }

\* Every sample once, an anchor without href value, and some samples again
\* with another text or with a title.
Elements ==
    { Element(h, "t", << >>) : h \in HrefSamples \cup {<< >>} }
    \cup { Element(h, "u", << >>) : h \in {<<"/", "x">>, <<"#", "f">>} }
    \cup { Element(h, "t", <<"v">>) : h \in {<<"/", "x">>, <<"m", "a", "i", "l", "t", "o", ":", "m">>} }

Documents == UNION { [1..n -> Elements] : n \in 0..MaxAnchors }

\* The pages: one on a domain name, one on an IP address.
LinkBases ==
    { ParseUrl(Http \o <<":", "/", "/">> \o HostA \o <<"/", "d", "/", "p">>).url,
      ParseUrl(Http \o <<":", "/", "/">> \o HostIp \o <<"/">>).url }

InitLinks ==
    /\ InitLocals
    /\ tie = "asc"
    /\ resumed = FALSE
    /\ backend = "none"
    /\ seeds = << >>
    /\ pc = "links"
    /\ url_queue = << >>
    /\ FetchOff
    /\ lpc = "input"
    /\ pattern = << >>
    /\ path = << >>
    /\ matches = FALSE
    /\ robot = EmptyRobot
    /\ user_agent = << >>
    /\ group = 0
    /\ allowed = FALSE
    /\ page_url \in LinkBases
    /\ robots_url = NoUrl
    /\ anchors \in Documents
    /\ extracted = NoLinks

\* extract_links.rs:44-49  ExtractLinks::extract
Extract ==
    /\ lpc = "input"
    /\ pc = "links"
    /\ extracted' \in deduplicate(parse(NoLinks, page_url, anchors, 1))
    /\ lpc' = "done"
    /\ UNCHANGED <<engineOff, pattern, path, matches, robot, user_agent, group, allowed,
                   page_url, robots_url, anchors>>

NextLinks == Extract

SpecLinks == InitLinks /\ [][NextLinks]_vars

\* ===================================================================== claims
\* has_seen as the engine observes it when the select succeeds.
HasSeen(u) == sqlite_has_seen(pages, u, 0)

SessionRows(q) == { i \in DOMAIN q : q[i].session = crawl_session_id }

\* At most one row of url_queue per (session, url).
SqliteFrontierUnique ==
    \A i, j \in DOMAIN url_queue :
        (url_queue[i].session = url_queue[j].session /\ url_queue[i].url = url_queue[j].url)
            => i = j

\* At most one occurrence of a URL in the queue of the StdOutCrawler.
StdoutFrontierUnique ==
    \A i, j \in DOMAIN queue : queue[i] = queue[j] => i = j

\* add_to_queue that returned Ok inserted a pending row exactly for the URLs
\* of its argument that had no row before.
SqliteAddInsertsIffAbsent ==
    (backend = "sqlite" /\ lastCall.op = "add_to_queue" /\ lastCall.ret = "ok") =>
        /\ SubSeq(url_queue, 1, Len(lastCall.before)) = lastCall.before
        /\ \A k \in DOMAIN lastCall.urls : QueueExists(url_queue, lastCall.urls[k])
        /\ \A i \in (Len(lastCall.before) + 1)..Len(url_queue) :
            /\ url_queue[i] = NewQueueItem(url_queue[i].url)
            /\ ~QueueExists(lastCall.before, url_queue[i].url)
            /\ \E k \in DOMAIN lastCall.urls : lastCall.urls[k] = url_queue[i].url

\* C1: after any sequence of add_to_queue, next_queue and mark_as_visited
\* calls there is at most one frontier entry per (session, url), in the
\* database crawler and in the in-memory crawler alike, and add_to_queue
\* inserts a pending entry for a URL iff the URL has no entry.
C1_FrontierUniqueness ==
    /\ SqliteFrontierUnique
    /\ StdoutFrontierUnique
    /\ SqliteAddInsertsIffAbsent

\* The part of C1 that the SqliteCrawler satisfies.
C1_SqliteOnly == SqliteFrontierUnique /\ SqliteAddInsertsIffAbsent

\* The Robot cached for the host of u, if any, allows the path of u.
RobotPermits(u) ==
    \/ robots_cache[HostOf(u)] = NoRobot
    \/ RobotAllow(robots_cache[HostOf(u)][1], PathOf(u), CrawlerAgent)

\* C2: no page fetch is in flight for a URL whose host has a cached Robot
\* that disallows the path of the URL, be it the primary URL or a member of
\* the batch.
C2_RobotsEnforced ==
    pc = "join" => \A i \in DOMAIN batch_urls : RobotPermits(batch_urls[i])

\* The crawl-delay the robots.txt of the host gives: -1 when it gives none.
SiteDelay(h) ==
    IF RobotsResponse(h).kind = "ok" /\ RobotsResponse(h).status = 200
    THEN crawl_delay(RobotsResponse(h).robot, DelayAgent)
    ELSE -1

ConsecutiveOnHost(i, j) ==
    /\ i < j
    /\ fetchLog[i].host = fetchLog[j].host
    /\ \A k \in (i + 1)..(j - 1) : fetchLog[k].host # fetchLog[i].host

\* C3: two consecutive page fetches to a host whose robots.txt gives
\* crawl-delay D > 0 start at least D seconds apart.
C3_PolitenessInterval ==
    \A i, j \in DOMAIN fetchLog :
        (ConsecutiveOnHost(i, j) /\ SiteDelay(fetchLog[i].host) > 0)
            => fetchLog[j].time - fetchLog[i].time >= SiteDelay(fetchLog[i].host)

\* The URLs reachable from a set by following the anchors of the pages.
ReachStep(S) == S \cup UNION { { Hrefs(u)[k] : k \in DOMAIN Hrefs(u) } : u \in S }
RECURSIVE Reachable(_)
Reachable(S) == IF ReachStep(S) = S THEN S ELSE Reachable(ReachStep(S))

SeedSet == { seeds[k] : k \in DOMAIN seeds }

\* No robots rule of the site and no operator record denies the URL.
SiteAllows(u) ==
    /\ RobotsResponse(HostOf(u)).kind = "ok" =>
            RobotAllow(RobotsResponse(HostOf(u)).robot, PathOf(u), CrawlerAgent)
    /\ \A i \in DOMAIN domains : domains[i].domain = HostOf(u) => domains[i].allow_crawl

\* C4: when start returns Ok after a run in which nothing failed, on a site
\* none of whose reachable URLs is denied, every URL reachable from the seeds
\* has a saved page.
C4_CrawlComplete ==
    (pc = "done" /\ faults = 0 /\ \A u \in Reachable(SeedSet) : SiteAllows(u))
        => \A u \in Reachable(SeedSet) : HasSeen(u)

\* C5: a URL that next_queue has returned is never returned by a later
\* next_queue call.
C5_NoDoubleHandOut ==
    \A i, j \in DOMAIN handed : handed[i] = handed[j] => i = j

\* The part of C5 that the SqliteCrawler satisfies.
C5_SqliteOnly == backend = "sqlite" => C5_NoDoubleHandOut

\* C6: next_queue returns the URL of an entry that was pending and of the
\* highest priority among the pending entries, that entry is processing
\* right after the call, and it returns None only when the session has no
\* pending entry.
C6_NextQueueDispatch ==
    (backend = "sqlite" /\ lastCall.op = "next_queue") =>
        LET P == PendingRows(lastCall.before)
        IN IF lastCall.ret = None
           THEN P = {}
           ELSE \E i \in P :
                  /\ lastCall.before[i].url = lastCall.ret
                  /\ \A j \in P : lastCall.before[j].priority <= lastCall.before[i].priority
                  /\ url_queue[i].status = "processing"
                  /\ \A j \in DOMAIN url_queue : j # i => url_queue[j] = lastCall.before[j]

\* The part of C6 about the calls that return a URL.
C6_SomeOnly ==
    (backend = "sqlite" /\ lastCall.op = "next_queue" /\ lastCall.ret # None) =>
        C6_NextQueueDispatch

LifecycleStep(a, b) ==
    \/ a = b
    \/ a = "pending" /\ b = "processing"
    \/ a = "processing" /\ b \in {"completed", "failed"}

C8_BatchHostsDistinct ==
    /\ Len(batch_urls) <= BatchLimit
    /\ \A i, j \in DOMAIN batch_urls :
            HostOf(batch_urls[i]) = HostOf(batch_urls[j]) => i = j
    /\ inflight \subseteq DOMAIN batch_urls
    /\ inflight # {} => pc = "join"

\* A full batch is in flight while another URL waits in the frontier.
C8_Witness ==
    /\ pc = "join"
    /\ Cardinality(inflight) = BatchLimit
    /\ PendingRows(url_queue) # {}

C9_SaveBeforeMark == marked \subseteq save_ok

AddedUrls == { url_queue'[i].url : i \in (Len(url_queue) + 1)..Len(url_queue') }

\* C11: a step of start adds rows to the frontier only when it enqueues the
\* seeds, or when it enqueues the links of the page P it is processing, and
\* then the fetch of P has succeeded and save(P) has returned Ok; the rows
\* added are links of P.
C11_LinksAfterSave ==
    [][ Len(url_queue') > Len(url_queue) =>
          \/ pc = "start" /\ AddedUrls \subseteq SeedSet
          \/ /\ pc = "enqueue"
             /\ results[idx] = "ok"
             /\ batch_urls[idx] \in save_ok
             /\ AddedUrls \subseteq
                    { Hrefs(batch_urls[idx])[k] : k \in DOMAIN Hrefs(batch_urls[idx]) }
      ]_vars

\* The links of a0 were enqueued after its save; b0, one of them, was fetched
\* but its save failed, and the batch is over with no link of b0 enqueued.
C11_Witness ==
    /\ pc = "loop"
    /\ "a0" \in save_ok
    /\ QueueExists(url_queue, "b0")
    /\ \E k \in DOMAIN fetchLog : fetchLog[k].url = "b0"
    /\ "b0" \notin save_ok
    /\ ~QueueExists(url_queue, "b1")

\* The rows of `pages` that belong to the session.
SessionPages(pg) == { i \in DOMAIN pg : pg[i].session = crawl_session_id }

\* C12: there is at most one row of pages per (session, url), and a save
\* that returned Ok for a key that had a row left the number of rows
\* unchanged and rewrote that row.
C12_SavedPageUnique ==
    /\ \A i, j \in DOMAIN pages :
            (pages[i].session = pages[j].session /\ pages[i].url = pages[j].url)
                => i = j
    /\ (backend = "sqlite" /\ lastCall.op = "save" /\ lastCall.ret = "ok") =>
            LET u == lastCall.urls[1]
                old == { i \in SessionPages(lastCall.beforep) : lastCall.beforep[i].url = u }
            IN IF old = {}
               THEN /\ Len(pages) = Len(lastCall.beforep) + 1
                    /\ pages[Len(pages)].url = u
                    /\ pages[Len(pages)].session = crawl_session_id
               ELSE /\ Len(pages) = Len(lastCall.beforep)
                    /\ \A i \in old : pages[i].version = lastCall.beforep[i].version + 1
                    /\ \A i \in DOMAIN pages : i \notin old => pages[i] = lastCall.beforep[i]

\* A page of the session was saved again and its row rewritten, next to the
\* row another session holds for a URL.
C12_Witness ==
    /\ lastCall.op = "save"
    /\ \E i \in SessionPages(pages) : pages[i].version > 1
    /\ Len(pages) > Cardinality(SessionPages(pages))

\* The fetch of u ends in the fetcher's success outcome: the page answers
\* 200 OK with an HTML content type.
FetchSucceeds(u) ==
    /\ PageResponse(u).kind = "resp"
    /\ PageResponse(u).status = 200
    /\ PageResponse(u).content_type # NoHeader
    /\ Contains(PageResponse(u).content_type[1], TextHtml)

\* C13: a URL has a saved page, or a completed frontier entry, only if its
\* fetch ended in the success outcome (200 OK, HTML).
C13_SavedOnlyIfFetched ==
    /\ \A i \in SessionPages(pages) : FetchSucceeds(pages[i].url)
    /\ \A i \in SessionRows(url_queue) :
            url_queue[i].status = "completed" => FetchSucceeds(url_queue[i].url)

\* C14: start returns an error only when the store fails while the seeds are
\* enqueued; once the loop runs, no failure that concerns one URL (a URL
\* without a host among them) makes start return an error.
C14_FailureIsolation ==
    pc = "error" => (handed = << >> /\ faults > 0)

\* C15: when start runs again on the session after an interruption, no entry
\* of the session is in processing when the loop makes its first next_queue
\* call.
C15_ResumeRecovery ==
    (resumed /\ pc = "loop" /\ handed = << >>) =>
        \A i \in SessionRows(url_queue) : url_queue[i].status # "processing"

\* The URLs that have a saved page in the session.
SavedUrls == { pages[i].url : i \in SessionPages(pages) }

\* The pages one uninterrupted run without I/O failure saves, for a seed
\* list and the order the database returns rows of equal priority in.
UninterruptedPages(sd, t) ==
    CASE sd = <<"a0">> /\ t = "asc" -> {"a0", "a1", "b0", "b1"}
      [] sd = <<"a0">> /\ t = "desc" -> {"a0", "b0", "a2", "b2"}
      [] sd = <<"b0">> /\ t = "asc" -> {"b0", "b1"}
      [] sd = <<"b0">> /\ t = "desc" -> {"b0", "b2"}

\* C16: when start returns Ok and no I/O failed, the saved pages of the
\* session are those of one uninterrupted run, whether or not the crawl was
\* interrupted and resumed on the way.
C16_ResumeEquivalence ==
    (pc = "done" /\ faults = 0) => SavedUrls = UninterruptedPages(seeds, tie)

\* The part of C16 that holds: the runs that were not interrupted.
C16_Uninterrupted == resumed \/ C16_ResumeEquivalence

\* The server answered a chain of redirects and then 200 OK with an HTML
\* content type, and never failed on the way.
CleanChain == flaky = 0 /\ final = "html"

\* C17: against a chain of n redirects (301/302, distinct URLs) that ends in
\* 200 OK HTML, FetchedPage::fetch returns the page with url = the original
\* URL and final_url = the last URL when n <= 5, and fails with "Too many
\* redirects" when n = 6.
C17_RedirectLimit ==
    (fetcher = "fetch" /\ fpc = "done" /\ CleanChain) =>
        /\ chain <= InitialMaxRedirects =>
                outcome = [kind |-> "Ok", url |-> 0, final_url |-> chain]
        /\ chain = InitialMaxRedirects + 1 => outcome.kind = "TooManyRedirects"

\* What the code does: a chain of 5 redirects already fails.
C17_AsCoded ==
    (fetcher = "fetch" /\ fpc = "done" /\ CleanChain) =>
        /\ chain < InitialMaxRedirects =>
                outcome = [kind |-> "Ok", url |-> 0, final_url |-> chain]
        /\ chain >= InitialMaxRedirects =>
                outcome.kind = "TooManyRedirects" /\ Len(respLog) = InitialMaxRedirects

\* The failures (500, 503, no response) at the end of the log: the failed
\* requests to the URL the loop is at.
RECURSIVE TrailingFailures(_)
TrailingFailures(log) ==
    IF log = << >> \/ log[Len(log)] \notin {0, 500, 503} THEN 0
    ELSE 1 + TrailingFailures(SubSeq(log, 1, Len(log) - 1))

\* C18: FetchedPage::fetch retries a URL that answers 500 or 503 or does not
\* answer at most 3 times; the k-th sleep of the fetch lasts 500 ms * 2^(k-1);
\* 503, 503, 200 succeeds after sleeps of 500 and 1000 ms; the failure that
\* follows the third retry ends the fetch, with no further request, in
\* "HTTP Error .. after 3 retries" for a status and "Failed to fetch after 3
\* retries" for a transport error.
C18_RetryBackoff ==
    fetcher = "fetch" =>
        /\ \A k \in DOMAIN sleeps : sleeps[k] = FetchRetryDelay * 2^(k - 1)
        /\ TrailingFailures(respLog) <= max_retries + 1
        /\ fpc \in {"loop", "done"} =>
                Len(sleeps) = Cardinality({ k \in DOMAIN respLog : respLog[k] \in {0, 500, 503} })
                                - (IF outcome.kind \in {"ServerError", "NetworkError"} THEN 1 ELSE 0)
        /\ (fpc = "done" /\ respLog = <<503, 503, 200>> /\ final = "html") =>
                outcome.kind = "Ok" /\ sleeps = <<500, 1000>>
        /\ (TrailingFailures(respLog) = max_retries + 1 /\ fpc # "match") =>
                /\ fpc = "done"
                /\ outcome.kind = IF respLog[Len(respLog)] = 0 THEN "NetworkError"
                                  ELSE "ServerError"
        /\ outcome.kind \in {"ServerError", "NetworkError"} =>
                TrailingFailures(respLog) = max_retries + 1

\* 503, 503, 200 has succeeded after two sleeps.
C18_Witness ==
    /\ fetcher = "fetch"
    /\ fpc = "done"
    /\ respLog = <<503, 503, 200>>
    /\ sleeps = <<500, 1000>>
    /\ outcome.kind = "Ok"

\* C19: a response whose status is none of 200, 301, 302, 500, 503 ends the
\* fetch at once with "HTTP Error": no sleep, no further request, and the
\* retry and redirect counters are left as they are (in FetchedPage::fetch
\* and in StdOutCrawler::fetch_page).
C19_NonRetryable ==
    [][ (fpc = "match" /\ response.kind = "resp"
            /\ response.status \notin {200, 301, 302, 500, 503}) =>
          /\ fpc' = "done"
          /\ outcome'.kind = "HttpError"
          /\ sleeps' = sleeps
          /\ respLog' = respLog
          /\ retry_count' = retry_count
          /\ max_redirects' = max_redirects
      ]_vars

\* A 502 that came after a redirect and a retry has ended the fetch.
C19_Witness ==
    /\ fpc = "done"
    /\ outcome.kind = "HttpError"
    /\ response.status = 502
    /\ redirect_count > 0
    /\ retry_count > 0

\* C20: a fetch whose last response is 200 OK succeeds only if the response
\* has a Content-Type header that contains text/html; without the header it
\* fails, and with another content type it fails with "not HTML".
C20_ContentTypeGate ==
    (fpc = "done" /\ response.kind = "resp" /\ response.status = 200) =>
        IF response.content_type = NoHeader THEN outcome.kind # "Ok"
        ELSE IF Contains(response.content_type[1], TextHtml) THEN outcome.kind = "Ok"
        ELSE outcome.kind = "NotHtml"

\* The parts of C20 each loop satisfies: FetchedPage::fetch fails without
\* the header, StdOutCrawler::fetch_page fails on another content type.
C20_AsCoded ==
    (fpc = "done" /\ response.kind = "resp" /\ response.status = 200) =>
        /\ (response.content_type # NoHeader
                /\ Contains(response.content_type[1], TextHtml)) => outcome.kind = "Ok"
        /\ (fetcher = "fetch" /\ response.content_type = NoHeader) => outcome.kind # "Ok"
        /\ (fetcher = "stdout" /\ response.content_type # NoHeader
                /\ ~Contains(response.content_type[1], TextHtml)) => outcome.kind = "NotHtml"

\* The rules of the selected group that match the path with a pattern that
\* is not empty, and the length of the longest of their patterns.
MatchingRules ==
    { r \in DOMAIN robot.groups[group].rules :
        /\ robot.groups[group].rules[r].pattern # << >>
        /\ matches_pattern(robot.groups[group].rules[r].pattern, path) }

LongestMatch ==
    CHOOSE l \in { Len(robot.groups[group].rules[r].pattern) : r \in MatchingRules } :
        \A r \in MatchingRules : Len(robot.groups[group].rules[r].pattern) <= l

\* C21: Robot.allow returns the allow flag of the matching rule with the
\* longest pattern of the selected group; when rules of that length both
\* allow and disallow, the result is allow whatever their order; when no
\* rule matches (an empty Disallow included) the path is allowed.
C21_RulePrecedence ==
    (lpc = "done" /\ pc = "library" /\ group # 0) =>
        IF MatchingRules = {} THEN allowed
        ELSE allowed =
                (\E r \in MatchingRules :
                    /\ Len(robot.groups[group].rules[r].pattern) = LongestMatch
                    /\ robot.groups[group].rules[r].allow)

\* What the scan of find_longest_matching_rule does instead: among the
\* matching rules of the longest pattern, the first one in the file decides.
C21_AsCoded ==
    (lpc = "done" /\ pc = "library" /\ group # 0 /\ MatchingRules # {}) =>
        allowed =
            robot.groups[group].rules[
                MinOf({ r \in MatchingRules :
                    Len(robot.groups[group].rules[r].pattern) = LongestMatch })].allow

\* The tokens of a group of the Robot, in lower case.
TokensOf(g) ==
    { ToLower(robot.groups[g].user_agents[a]) : a \in DOMAIN robot.groups[g].user_agents }

ExactHolders == { g \in DOMAIN robot.groups : ToLower(user_agent) \in TokensOf(g) }

\* The tokens other than * that are a prefix of the agent, the empty token
\* among them or not.
PrefixTokens(g, with_empty) ==
    { t \in TokensOf(g) :
        /\ t # <<"*">>
        /\ StartsWith(ToLower(user_agent), t)
        /\ (with_empty \/ t # << >>) }

PrefixHolders(with_empty) ==
    { g \in DOMAIN robot.groups : PrefixTokens(g, with_empty) # {} }

WildcardHolders == { g \in DOMAIN robot.groups : <<"*">> \in TokensOf(g) }

GroupSelection(with_empty) ==
    (lpc = "done" /\ pc = "library") =>
        IF ExactHolders # {} THEN group \in ExactHolders
        ELSE IF PrefixHolders(with_empty) # {}
        THEN /\ group \in PrefixHolders(with_empty)
             /\ \E t \in PrefixTokens(group, with_empty) :
                    \A g \in PrefixHolders(with_empty) :
                        \A u \in PrefixTokens(g, with_empty) : Len(u) <= Len(t)
        ELSE IF WildcardHolders # {} THEN group = MinOf(WildcardHolders)
        ELSE group = 0 /\ allowed

\* C22 (as stated): find_group returns a group with a token equal to the
\* agent without regard to case; else the group holding the longest token
\* other than * that is a prefix of the agent; else the first group with *;
\* else no group, and every path is allowed.
C22_GroupSelection == GroupSelection(TRUE)

\* C22 (amended): the same, the prefix tokens being the non-empty ones: a
\* group whose token is empty is selected only for the empty agent.
C22_GroupSelectionNonEmpty == GroupSelection(FALSE)

\* The agent `gob` against groups for *, g and Go: the group of Go is
\* selected and, having no rules, allows the path the group of * denies.
C22_Witness ==
    /\ lpc = "done"
    /\ pc = "library"
    /\ robot.groups =
        << NewGroup(<<"*">>, DisallowAll), NewGroup(<<"g">>, << >>),
           NewGroup(<<"G", "o">>, << >>) >>
    /\ user_agent = <<"g", "o", "b">>
    /\ group = 3
    /\ allowed

\* The grammar of spec 4.A read as a definition: * stands for any run of
\* characters, every other character for itself, and the pattern covers a
\* prefix of the path, or all of it when anchored.
RECURSIVE GlobMatch(_, _, _)
GlobMatch(p, s, anchored) ==
    IF p = << >> THEN (anchored => s = << >>)
    ELSE IF Head(p) = "*"
    THEN GlobMatch(Tail(p), s, anchored) \/ (s # << >> /\ GlobMatch(p, Tail(s), anchored))
    ELSE s # << >> /\ Head(s) = Head(p) /\ GlobMatch(Tail(p), Tail(s), anchored)

ReferenceMatch(p, s) ==
    IF p # << >> /\ p[Len(p)] = "$"
    THEN GlobMatch(SubSeq(p, 1, Len(p) - 1), s, TRUE)
    ELSE GlobMatch(p, s, FALSE)

\* C23: matches_pattern(pattern, path) equals the reference matcher (* any
\* run of characters, a trailing $ the end of the path, other characters
\* literal, prefix match without the $) for every pattern and path.
C23_PatternGrammar ==
    (lpc = "done" /\ pc = "matcher") => (matches = ReferenceMatch(pattern, path))

\* /*a$, a pattern longer than the path, against /a/: no match, the path
\* does not end in a.
C23_Witness ==
    /\ lpc = "done"
    /\ pc = "matcher"
    /\ pattern = <<"/", "*", "a", "$">>
    /\ path = <<"/", "a", "/">>
    /\ ~matches

\* The server of the host has answered the robots.txt request of this run
\* (every answer that is received installs a Robot, traits.rs:78-83).
RobotsAnswered(h) == robots_cache[h] # NoRobot

\* The page fetches dispatched by the step.
NewFetches == { fetchLog'[k] : k \in (Len(fetchLog) + 1)..Len(fetchLog') }

\* C24: once the robots.txt request of a host was answered 403, the Robot
\* installed for the host denies every path and no page of the host is
\* fetched.
C24_Forbidden403 ==
    [][\A h \in Hosts :
        (RobotsAnswered(h) /\ RobotsResponse(h).status = 403) =>
            /\ \A p \in RobotPaths : ~RobotAllow(robots_cache[h][1], p, CrawlerAgent)
            /\ \A e \in NewFetches : e.host # h]_vars

\* C25: when the robots.txt request of a host is answered 404 or any status
\* other than 200 and 403, or fails in transport, no Robot is installed for
\* the host.
C25_NoRobotUnlessOk ==
    \A h \in Hosts :
        (RobotsResponse(h).kind = "err" \/ RobotsResponse(h).status \notin {200, 403})
            => robots_cache[h] = NoRobot

\* C26: during one run of start, robots.txt is requested at most once for
\* each host.
C26_RobotsOncePerHost == \A h \in Hosts : robots_requests[h] <= 1

\* C27: every page fetch dispatched to a host comes after the robots.txt
\* request for that host, batch members included.
C27_RobotsBeforeFetch ==
    \A k \in DOMAIN fetchLog : robots_requests[fetchLog[k].host] >= 1

\* The part of C27 the engine keeps: without I/O failures, the URL popped at
\* the head of the loop is fetched after the robots.txt request of its host.
C27_PrimaryOnly ==
    (faults = 0 /\ pc = "join") => robots_requests[HostOf(batch_urls[1])] >= 1

\* C28: robots.txt is requested on the scheme, host and port of the page
\* URL: s://h/robots.txt without an explicit port, s://h:p/robots.txt with
\* one.
C28_RobotsUrl ==
    (lpc = "done" /\ pc = "robots_url") =>
        /\ robots_url =
            [scheme |-> page_url.scheme, host |-> page_url.host, port |-> page_url.port,
             path |-> RobotsTxtPath, fragment |-> << >>]
        /\ UrlString(robots_url) =
            page_url.scheme \o <<":", "/", "/">> \o page_url.host
            \o (IF page_url.port = 0 THEN << >> ELSE <<":">> \o ToDigits(page_url.port))
            \o RobotsTxtPath

\* What holds for both crawlers: the scheme and the host are those of the
\* page, and so is the port for StdOutCrawler and for pages on the default
\* port.
C28_AsCoded ==
    (lpc = "done" /\ pc = "robots_url") =>
        /\ robots_url.scheme = page_url.scheme
        /\ robots_url.host = page_url.host
        /\ robots_url.path = RobotsTxtPath
        /\ robots_url.port = IF backend = "sqlite" THEN 0 ELSE page_url.port

\* C29: in the output of ExtractLinks::extract no two entries of a class
\* have the same url string.
C29_DedupByUrl ==
    (lpc = "done" /\ pc = "links") =>
        \A c \in LinkClasses : \A i, j \in DOMAIN extracted[c] :
            i # j => extracted[c][i].url # extracted[c][j].url

\* What the HashSet of LinkInfo gives: no two entries of a class are equal
\* in all of url, text, title, rel and target.
C29_AsCoded ==
    (lpc = "done" /\ pc = "links") =>
        \A c \in LinkClasses : \A i, j \in DOMAIN extracted[c] :
            i # j => extracted[c][i] # extracted[c][j]

\* The href begins with one of the prefixes.
BeginsWith(href, prefixes) == \E n \in 1..Len(href) : SubSeq(href, 1, n) \in prefixes

\* The resolution of a web href as C30 words it (parsed as absolute, on
\* failure resolved against the base), or with the absolute parse kept for
\* the hrefs that begin with http:// or https://, the others being resolved
\* against the base.
Resolved(href, absolute_first) ==
    IF absolute_first
    THEN IF ParseUrl(href).ok THEN ParseUrl(href) ELSE JoinUrl(page_url, href)
    ELSE IF BeginsWith(href, {<<"h", "t", "t", "p", ":", "/", "/">>,
                              <<"h", "t", "t", "p", "s", ":", "/", "/">>})
    THEN ParseUrl(href) ELSE JoinUrl(page_url, href)

\* The class of an href by the rules of C30, "none" when it is dropped.
ClassOf(href, absolute_first) ==
    LET r == Resolved(href, absolute_first)
        d == DomainOrEmpty(r.url)
    IN CASE href = << >> -> "none"
         [] BeginsWith(href, {<<"j", "a", "v", "a", "s", "c", "r", "i", "p", "t", ":">>})
                -> "javascript"
         [] BeginsWith(href, {<<"m", "a", "i", "l", "t", "o", ":">>}) -> "mailto"
         [] BeginsWith(href, {<<"t", "e", "l", ":">>}) -> "phone"
         [] BeginsWith(href, {<<"#">>}) -> "anchor"
         [] OTHER ->
            IF ~r.ok THEN "none"
            ELSE IF d # << >> /\ d = DomainOrEmpty(page_url) THEN "internal"
            ELSE IF d # << >> THEN "external"
            ELSE IF BeginsWith(href, {<<"/">>, <<".", "/">>, <<".", ".", "/">>})
            THEN "internal"
            ELSE "none"

\* The url of the entry: the href as written for javascript, mailto and
\* phone, its resolved form for the other classes.
EntryUrl(href, absolute_first) ==
    CASE ClassOf(href, absolute_first) \in {"javascript", "mailto", "phone"} -> href
      [] ClassOf(href, absolute_first) = "anchor" -> UrlString(JoinUrl(page_url, href).url)
      [] OTHER -> UrlString(Resolved(href, absolute_first).url)

Classified(absolute_first) ==
    (lpc = "done" /\ pc = "links") =>
        \A c \in LinkClasses :
            { extracted[c][i] : i \in DOMAIN extracted[c] } =
                { [create_link_info(anchors[k]) EXCEPT
                        !.url = EntryUrl(anchors[k].href, absolute_first)] :
                    k \in { k \in DOMAIN anchors :
                                ClassOf(anchors[k].href, absolute_first) = c } }

\* C30 (as stated): every anchor with a non-empty href is in at most one
\* class: javascript:, mailto:, tel:, # by prefix; otherwise its href parsed
\* as absolute and on failure resolved against the base is internal on the
\* non-empty base domain, external on another domain, internal without a
\* domain when the href begins with /, ./ or ../, and dropped otherwise.
C30_Classification == Classified(TRUE)

\* C30 (amended): the same, where only an href that begins with http:// or
\* https:// is parsed as absolute (and dropped when that fails) and every
\* other href is resolved against the base.
C30_ClassificationJoin == Classified(FALSE)

\* On http://h1/d/p the href http:x, resolved against the base, is internal
\* and //h2/x is external.
C30_Witness ==
    /\ lpc = "done"
    /\ pc = "links"
    /\ page_url.host = HostA
    /\ Len(anchors) = 2
    /\ anchors[1].href = <<"h", "t", "t", "p", ":", "x">>
    /\ anchors[2].href = <<"/", "/", "h", "2", "/", "x">>
    /\ Len(extracted.internal) = 1
    /\ extracted.internal[1].url =
            Http \o <<":", "/", "/">> \o HostA \o <<"/", "d", "/", "x">>
    /\ Len(extracted.external) = 1
    /\ extracted.external[1].url = Http \o <<":", "/", "/">> \o HostB \o <<"/", "x">>

\* ------------------------------------------------------------------ C31
Denied(dm, h) == \E i \in DOMAIN dm : dm[i].domain = h /\ ~dm[i].allow_crawl

DomainsUnique(dm) ==
    \A i, j \in DOMAIN dm : dm[i].domain = dm[j].domain => i = j

\* C31: check_robot_policy answers with the allow_crawl flag of the domain
\* record of the host and writes table domains only to append a record with
\* allow_crawl = true for a host that had none, so that no host ever has two
\* records; and no page fetch is dispatched, for the primary URL or for a
\* batch member, to a host whose record says allow_crawl = false.
C31_OperatorOverride ==
    [][ /\ DomainsUnique(domains')
        /\ (pc # "start" /\ domains' # domains =>
                /\ Len(domains') = Len(domains) + 1
                /\ SubSeq(domains', 1, Len(domains)) = domains
                /\ domains'[Len(domains')].allow_crawl
                /\ DomainFind(domains, domains'[Len(domains')].domain) = 0)
        /\ (pc = "policy" /\ pc' = "batch" => ~Denied(domains, HostOf(next_url)))
        /\ (pc = "policy" /\ now' = now /\ faults' = faults
                /\ HostOf(next_url) # NoHost /\ ~Denied(domains, HostOf(next_url))
                /\ ~HasSeen(next_url)
              => pc' = "batch")
        /\ \A e \in NewFetches : ~Denied(domains', e.host) ]_vars

\* A URL of the forbidden host was handed out during batch collection and is
\* not in the batch that is about to be fetched.
C31_Witness ==
    /\ pc = "fetch"
    /\ Denied(domains, "h2")
    /\ Len(handed) > 0 /\ handed[Len(handed)] = "b2"
    /\ Len(batch_urls) >= 1
    /\ \A k \in DOMAIN batch_urls : batch_urls[k] # "b2"

\* ------------------------------------------------------------------ C32
Returned == pc \in {"done", "error"}

PendingCount(q) == Cardinality(PendingRows(q))

\* C32: start eventually returns; no step puts an entry that left pending
\* back into pending, and every iteration of the loop (a next_queue that
\* returns a URL) moves an entry out of pending.
C32_Termination ==
    /\ <>Returned
    /\ [][ /\ \A i \in DOMAIN url_queue :
                i \in PendingRows(url_queue') => i \in PendingRows(url_queue)
           /\ (pc = "loop" /\ pc' = "delay" =>
                PendingCount(url_queue') < PendingCount(url_queue)) ]_vars

\* start has returned Ok after a crawl that followed the links a0 -> a1 -> a0.
C32_Witness ==
    /\ pc = "done"
    /\ PendingRows(url_queue) = {}
    /\ {"a0", "a1"} \subseteq save_ok

\* ------------------------------------------------------------------ C33
RequestsPerHop == 1 + max_retries

MaxHops == InitialMaxRedirects + 1

\* The requests of the same hop that came right before request k: the
\* responses before it down to the last redirect.
RECURSIVE RunBefore(_, _)
RunBefore(log, k) ==
    IF k = 1 \/ IsRedirect(log[k - 1]) THEN 0 ELSE 1 + RunBefore(log, k - 1)

\* C33: whatever the server answers, a fetch ends, and it sends at most
\* 1 + 3 requests per hop, visits at most 6 hops and so sends at most 24
\* requests.
C33_FetchTermination ==
    /\ <>(fpc = "done")
    /\ [](/\ \A k \in DOMAIN respLog : RunBefore(respLog, k) + 1 <= RequestsPerHop
          /\ redirect_count + 1 <= MaxHops
          /\ Len(respLog) <= RequestsPerHop * MaxHops
          /\ fpc = "done" => outcome.kind # "none")

\* The longest fetch: three failures before every redirect of the cycle.
C33_Witness ==
    /\ fpc = "done"
    /\ final = "503/down"
    /\ Len(respLog) = RequestsPerHop * InitialMaxRedirects
    /\ outcome.kind = "TooManyRedirects"

\* ------------------------------------------------------------------ C34
\* The step is a call add_to_queue(urls) that returned Ok.
AddReturned == calls' = calls + 1 /\ lastCall'.op = "add_to_queue" /\ lastCall'.ret = "ok"

\* A second call with the same list changes nothing.
SecondAddChangesNothing ==
    IF backend = "sqlite"
    THEN sqlite_add_to_queue(url_queue', lastCall'.urls, 0).q = url_queue'
    ELSE stdout_add_to_queue(queue', visited', lastCall'.urls) = queue'

\* The entries that existed are as they were, and a URL that was handed out
\* or completed has got no new entry.
ExistingEntriesKept ==
    /\ Len(url_queue') >= Len(url_queue)
    /\ SubSeq(url_queue', 1, Len(url_queue)) = url_queue
    /\ Len(queue') >= Len(queue)
    /\ SubSeq(queue', 1, Len(queue)) = queue
    /\ \A k \in (Len(queue) + 1)..Len(queue') : queue'[k] \notin visited
    /\ \A k \in (Len(url_queue) + 1)..Len(url_queue') :
            ~QueueExists(url_queue, url_queue'[k].url)

\* C34: add_to_queue is idempotent (a second call with the same URLs leaves
\* the frontier as the first call left it) and leaves the entries that exist
\* as they are: an entry in processing or completed keeps its status,
\* priority and retry_count and its URL is not queued again.
C34_AddIdempotent ==
    [][AddReturned => SecondAddChangesNothing /\ ExistingEntriesKept]_vars

\* What holds for both crawlers: existing entries are kept; a second call
\* changes nothing in the SqliteCrawler.
C34_AsCoded ==
    [][AddReturned =>
        /\ ExistingEntriesKept
        /\ backend = "sqlite" => SecondAddChangesNothing]_vars

\* ------------------------------------------------------------------ C35
\* The step is the next_queue of the loop head, or the check_robot_policy of
\* the primary URL, with a statement that failed in the database (a failed
\* has_seen lets the URL into the batch).
StoreFailed ==
    /\ faults' # faults
    /\ \/ pc = "loop"
       \/ pc = "policy" /\ pc' # "batch"

\* C35: a failure of the frontier store in next_queue or in
\* check_robot_policy makes start return an error, and start returns Ok only
\* when the session has no pending entry.
C35_StoreErrorsFatal ==
    /\ [](pc = "done" => PendingRows(url_queue) = {})
    /\ [][StoreFailed => pc' = "error"]_vars

\* What the code does: the failure is taken for an empty frontier (start
\* returns Ok) or for a URL that policy forbids (the loop goes on).
C35_AsCoded ==
    [][StoreFailed => pc' = IF pc = "loop" THEN "done" ELSE "loop"]_vars

\* ------------------------------------------------------------------ C36
\* next_queue has just handed out u inside the batch loop and u was not
\* added to the batch.
Leftover(u) ==
    /\ pc = "batch"
    /\ handed # << >> /\ handed[Len(handed)] = u
    /\ batch_urls[Len(batch_urls)] # u

TimesHanded(u) == Cardinality({ k \in DOMAIN handed : handed[k] = u })

\* C36: a URL that next_queue hands out during batch collection and that is
\* not added to the batch is handed out by next_queue again later.
C36_LeftoversRetried ==
    \A u \in Urls : Leftover(u) ~> (TimesHanded(u) >= 2)

\* What the code does: the leftover is never handed out again, its entry
\* stays in processing.
C36_AsCoded ==
    \A u \in Urls :
        [](Leftover(u) =>
            [](/\ TimesHanded(u) = 1
               /\ url_queue[QueueFind(url_queue, u)].status = "processing"))

CompletedRows(q) ==
    { i \in DOMAIN q : q[i].session = crawl_session_id /\ q[i].status = "completed" }

\* C38: at every point of start, each entry of the session in status
\* completed has a saved page for its URL, and each saved page of the session
\* is the page of a URL that has a frontier entry.
C38_CompletedImpliesSaved ==
    /\ \A i \in CompletedRows(url_queue) : PageFind(pages, url_queue[i].url) # 0
    /\ \A j \in SessionPages(pages) : QueueExists(url_queue, pages[j].url)

\* Two pages are completed and saved, and a third page is saved while its
\* entry is still in processing.
C38_Witness ==
    /\ Cardinality(CompletedRows(url_queue)) = 2
    /\ Cardinality(SessionPages(pages)) = 3
    /\ pc = "mark"

\* ------------------------------------------------------------------ C39
\* C39: during one run of start no URL is handed to fetch_page twice,
\* whether it was given twice as a seed, linked from several pages, or both
\* a seed and a discovered link.
C39_NoRefetch ==
    \A i, j \in DOMAIN fetchLog : fetchLog[i].url = fetchLog[j].url => i = j

\* What holds on the StdOutCrawler: a URL whose page was marked as visited
\* is not fetched again.
C39_AsCoded ==
    [][\A e \in NewFetches : e.url \notin visited]_vars

\* ------------------------------------------------------------------ C40
\* C40: when start has returned Ok, every entry of the session is completed
\* or failed; no entry that next_queue handed out is still in processing.
C40_NoneLeftInFlight ==
    pc = "done" =>
        \A i \in SessionRows(url_queue) : url_queue[i].status \in {"completed", "failed"}

\* What the code does: no statement writes the status failed, and when no
\* store operation failed, the entries start leaves behind are the completed
\* ones and, in processing, every URL that was handed out and then skipped,
\* dropped from a batch or not fetched, saved and marked successfully.
C40_AsCoded ==
    /\ \A i \in SessionRows(url_queue) : url_queue[i].status # "failed"
    /\ (pc = "done" /\ faults = 0) =>
            \A i \in SessionRows(url_queue) :
                IF url_queue[i].url \in marked THEN url_queue[i].status = "completed"
                ELSE url_queue[i].status = "processing"

====
